---- MODULE Spec2Model ----
(***************************************************************************)
(* rds-iam-connect: discovery of IAM-enabled RDS clusters by tag and       *)
(* region, the per-environment cache file in front of it, and the          *)
(* orchestration of the two in DatabaseService.GetClusters.                *)
(*                                                                         *)
(* Time is counted in hours.  A pointer field of the AWS SDK is a sequence *)
(* of length 0 (nil) or 1 (the value).  An ARN or a file name is the       *)
(* sequence of the pieces the code joins or splits it into.                *)
(***************************************************************************)
EXTENDS Integers, Sequences, FiniteSets, TLC

VARIABLES svc, now, fs, remote, saved, cop, pass, last, prev, wr, rd, io, ctx, run

vars == <<svc, now, fs, remote, saved, cop, pass, last, prev, wr, rd, io, ctx, run>>

(***************************************************************************)
(* Bounds of the model.                                                    *)
(***************************************************************************)
MaxTime == 2
MaxDur == 1
MaxTargets == 2
MaxListing == 2

(***************************************************************************)
(* Values.                                                                 *)
(***************************************************************************)
Nil == <<>>
Some(v) == <<v>>
Deref(p) == p[1]

Envs == {"prod", "staging"}
Regions == {"r1", "r2"}

\* An ARN as its colon-separated fields.
ClusterArn(region, id) == <<"arn", "aws", "rds", region, "acct", "cluster", id>>

MkCluster(id, port, arn, region) ==
    [Identifier |-> id, Endpoint |-> <<id, ".", "internal">>, Port |-> port,
     Arn |-> arn, Region |-> region]

Clusters ==
    { MkCluster("a1", 3306, ClusterArn("r1", "a1"), "r1"),
      MkCluster("b1", 3307, ClusterArn("r2", "b1"), "r2") }

RECURSIVE SeqsUpTo(_, _)
SeqsUpTo(S, n) ==
    IF n = 0 THEN { <<>> }
    ELSE LET shorter == SeqsUpTo(S, n - 1)
         IN  shorter \cup { Append(s, x) : s \in shorter, x \in S }

ClusterSeqs == SeqsUpTo(Clusters, MaxTargets)

(***************************************************************************)
(* Cache configuration: the duration string is a number and a unit.        *)
(***************************************************************************)
GoDurationUnits == {"h"}
HoursPerUnit == [u \in GoDurationUnits |-> 1]

DurationStrings ==
    { [n |-> k, unit |-> "h"] : k \in -1..MaxDur } \cup { [n |-> 1, unit |-> "d"] }

\* time.ParseDuration: only Go's units are accepted, "d" is not one of them.
ParseDuration(s) ==
    IF s.unit \in GoDurationUnits
    THEN [ok |-> TRUE, d |-> s.n * HoursPerUnit[s.unit]]
    ELSE [ok |-> FALSE, d |-> 0]

NewServiceValue(region, cacheEnabled, cacheDuration) ==
    [config |-> [Region |-> region],
     cacheConfig |-> [Enabled |-> cacheEnabled, Duration |-> cacheDuration]]

(***************************************************************************)
(* File names and the file system.                                         *)
(***************************************************************************)
CacheDir == <<"home", ".rds-iam-connect">>

\* GetCacheFileName that leaves the environment out of the name.
GetCacheFileName_Shared(env) == <<"rds-clusters-cache", ".json">>

GetCacheFileName(env) == <<"rds-clusters-cache-", env, ".json">>

\* filepath.Join(cacheDir, GetCacheFileName(env))
CacheFilePath(cacheDir, env) == Append(cacheDir, GetCacheFileName(env))

HasPrefix(s, p) == Len(s) >= Len(p) /\ SubSeq(s, 1, Len(p)) = p

Paths == { CacheFilePath(CacheDir, e) : e \in Envs }

NoFile == [kind |-> "none", data |-> <<>>]
RegularFile(data) == [kind |-> "regular", data |-> data]
\* A directory under the file's name, and a regular file whose mode grants
\* its owner nothing: os.Stat succeeds on it, opening it fails.
Directory == [kind |-> "dir", data |-> <<>>]
NoPermission == [kind |-> "noperm", data |-> <<>>]

(***************************************************************************)
(* The JSON document of a CacheData value, as a sequence of tokens.  A     *)
(* write that fails midway leaves a proper prefix of the tokens behind.    *)
(***************************************************************************)
TokBegin == [tok |-> "{"]
TokEnd == [tok |-> "}"]
TokTimestamp(t) == [tok |-> "timestamp", time |-> t]
TokCluster(c) == [tok |-> "cluster", value |-> c]

\* json.MarshalIndent(cache, "", "  ")
MarshalIndent(cache) ==
    <<TokBegin, TokTimestamp(cache.Timestamp)>>
        \o [i \in 1..Len(cache.Clusters) |-> TokCluster(cache.Clusters[i])]
        \o <<TokEnd>>

\* json.Unmarshal(data, &cache)
Unmarshal(data) ==
    LET n == Len(data)
        wellFormed ==
            /\ n >= 3
            /\ data[1].tok = "{"
            /\ data[2].tok = "timestamp"
            /\ \A i \in 3..(n - 1) : data[i].tok = "cluster"
            /\ data[n].tok = "}"
    IN  IF wellFormed
        THEN [ok |-> TRUE,
              cache |-> [Timestamp |-> data[2].time,
                         Clusters |-> [i \in 1..(n - 3) |-> data[i + 2].value]]]
        ELSE [ok |-> FALSE, cache |-> [Timestamp |-> 0, Clusters |-> <<>>]]

(***************************************************************************)
(* Cache store.                                                            *)
(***************************************************************************)
validateCacheFile(fsys, cacheFile) ==
    IF cacheFile \notin DOMAIN fsys \/ fsys[cacheFile].kind = "none" THEN "stat"
    ELSE IF fsys[cacheFile].kind = "dir" THEN "notregular"
    ELSE "ok"

\* os.ReadFile
ReadFile(fsys, path) ==
    IF fsys[path].kind = "regular" THEN [ok |-> TRUE, data |-> fsys[path].data]
    ELSE [ok |-> FALSE, data |-> <<>>]

\* parseCacheData with the path check negated.
parseCacheData_InvertedPrefix(fsys, cacheFile, cacheDir) ==
    IF HasPrefix(cacheFile, cacheDir) THEN [ok |-> FALSE, cache |-> Unmarshal(<<>>).cache]
    ELSE IF ~ReadFile(fsys, cacheFile).ok
         THEN [ok |-> FALSE, cache |-> Unmarshal(<<>>).cache]
    ELSE Unmarshal(ReadFile(fsys, cacheFile).data)

parseCacheData(fsys, cacheFile, cacheDir) ==
    IF ~HasPrefix(cacheFile, cacheDir) THEN [ok |-> FALSE, cache |-> Unmarshal(<<>>).cache]
    ELSE IF ~ReadFile(fsys, cacheFile).ok
         THEN [ok |-> FALSE, cache |-> Unmarshal(<<>>).cache]
    ELSE Unmarshal(ReadFile(fsys, cacheFile).data)

\* isCacheExpired with an inclusive age comparison.
isCacheExpired_Inclusive(cache, duration, t) ==
    (t - cache.Timestamp >= duration) \/ (cache.Timestamp > t)

\* isCacheExpired without the test for a timestamp in the future.
isCacheExpired_NoSkewGuard(cache, duration, t) ==
    t - cache.Timestamp > duration

isCacheExpired(cache, duration, t) ==
    (t - cache.Timestamp > duration) \/ (cache.Timestamp > t)

Miss(stage) == [ok |-> FALSE, clusters |-> <<>>, stage |-> stage, ts |-> 0]

\* dirOk: utils.GetCacheDir succeeded.
loadFromCache(s, fsys, env, t, dirOk) ==
    IF ~s.cacheConfig.Enabled THEN Miss("disabled")
    ELSE IF ~dirOk THEN Miss("nodir")
    ELSE LET cacheFile == CacheFilePath(CacheDir, env)
         IN  IF validateCacheFile(fsys, cacheFile) # "ok" THEN Miss("nofile")
             ELSE LET parsed == parseCacheData(fsys, cacheFile, CacheDir)
                      duration == ParseDuration(s.cacheConfig.Duration)
                  IN  IF ~parsed.ok THEN Miss("noparse")
                      ELSE IF ~duration.ok
                           THEN [Miss("badduration") EXCEPT !.ts = parsed.cache.Timestamp]
                      ELSE IF isCacheExpired(parsed.cache, duration.d, t)
                           THEN [Miss("expired") EXCEPT !.ts = parsed.cache.Timestamp]
                      ELSE [ok |-> TRUE, clusters |-> parsed.cache.Clusters,
                            stage |-> "hit", ts |-> parsed.cache.Timestamp]

\* os.WriteFile: written = -1 when the file cannot be opened, otherwise the
\* file is truncated and the first `written` tokens reach it.  A directory
\* or a file without permissions cannot be opened for writing.
CanOpenForWrite(fsys, path) == fsys[path].kind \in {"none", "regular"}

WriteFile(fsys, path, data, written) ==
    IF written < 0 \/ ~CanOpenForWrite(fsys, path) THEN fsys
    ELSE [fsys EXCEPT ![path] = RegularFile(SubSeq(data, 1, written))]

\* dirOk: utils.GetCacheDir succeeded; mkdirOk: os.MkdirAll succeeded.
saveToCache(s, fsys, clusters, env, t, dirOk, mkdirOk, written) ==
    IF ~s.cacheConfig.Enabled THEN [err |-> "none", fs |-> fsys, wrote |-> FALSE]
    ELSE IF ~dirOk THEN [err |-> "cachedir", fs |-> fsys, wrote |-> FALSE]
    ELSE IF ~mkdirOk THEN [err |-> "mkdir", fs |-> fsys, wrote |-> FALSE]
    ELSE LET cache == [Clusters |-> clusters, Timestamp |-> t]
             data == MarshalIndent(cache)
             cacheFile == CacheFilePath(CacheDir, env)
             n == IF ~CanOpenForWrite(fsys, cacheFile) THEN -1
                  ELSE IF written > Len(data) THEN Len(data)
                  ELSE written
         IN  [err |-> IF n = Len(data) THEN "none" ELSE "write",
              fs |-> WriteFile(fsys, cacheFile, data, n),
              wrote |-> n >= 0]

(***************************************************************************)
(* Inventory discovery.                                                    *)
(***************************************************************************)
Tag(k, v) == [Key |-> k, Value |-> v]

Filter(tagName, tagValue, envTagName, envTagValue) ==
    [tagName |-> tagName, tagValue |-> tagValue,
     envTagName |-> envTagName, envTagValue |-> envTagValue]

\* validateTags that checks the classification tag pair only.
validateTags_ClassificationOnly(f) ==
    IF f.tagName = "" \/ f.tagValue = "" THEN "tag parameters cannot be empty" ELSE "nil"

validateTags(f) ==
    IF f.tagName = "" \/ f.tagValue = "" \/ f.envTagName = "" \/ f.envTagValue = ""
    THEN "tag parameters cannot be empty"
    ELSE "nil"

hasRequiredTags(tags, f) ==
    LET hasTagName ==
            \E i \in 1..Len(tags) : tags[i].Key = f.tagName /\ tags[i].Value = f.tagValue
        hasEnvTag ==
            \E i \in 1..Len(tags) :
                tags[i].Key = f.envTagName /\ tags[i].Value = f.envTagValue
    IN  hasTagName /\ hasEnvTag

\* strings.Split(arn, ":") is the sequence of the ARN's fields.
extractRegionFromARN(arn) == IF Len(arn) >= 4 THEN arn[4] ELSE ""

NoCluster == [Identifier |-> "", Endpoint |-> <<>>, Port |-> 0, Arn |-> <<>>, Region |-> ""]

\* processDBCluster without the region comparison.
processDBCluster_NoRegionCheck(dbCluster, f, region, tagsErr) ==
    IF dbCluster.IAMDatabaseAuthenticationEnabled = Nil
           \/ ~Deref(dbCluster.IAMDatabaseAuthenticationEnabled)
    THEN [kind |-> "skipped", cluster |-> NoCluster, called |-> FALSE]
    ELSE IF dbCluster.DBClusterIdentifier = Nil \/ dbCluster.Endpoint = Nil
                \/ dbCluster.Port = Nil
    THEN [kind |-> "skipped", cluster |-> NoCluster, called |-> FALSE]
    ELSE IF tagsErr
    THEN [kind |-> "error", cluster |-> NoCluster, called |-> TRUE]
    ELSE IF ~hasRequiredTags(dbCluster.TagList, f)
    THEN [kind |-> "skipped", cluster |-> NoCluster, called |-> TRUE]
    ELSE [kind |-> "cluster",
          cluster |-> [Identifier |-> Deref(dbCluster.DBClusterIdentifier),
                       Endpoint |-> Deref(dbCluster.Endpoint),
                       Port |-> Deref(dbCluster.Port),
                       Arn |-> Deref(dbCluster.DBClusterArn),
                       Region |-> extractRegionFromARN(Deref(dbCluster.DBClusterArn))],
          called |-> TRUE]

\* processDBCluster that skips on a nil flag only, not on a false one.
processDBCluster_NilFlagOnly(dbCluster, f, region, tagsErr) ==
    IF dbCluster.IAMDatabaseAuthenticationEnabled = Nil
    THEN [kind |-> "skipped", cluster |-> NoCluster, called |-> FALSE]
    ELSE IF dbCluster.DBClusterIdentifier = Nil \/ dbCluster.Endpoint = Nil
                \/ dbCluster.Port = Nil
    THEN [kind |-> "skipped", cluster |-> NoCluster, called |-> FALSE]
    ELSE IF tagsErr
    THEN [kind |-> "error", cluster |-> NoCluster, called |-> TRUE]
    ELSE IF ~hasRequiredTags(dbCluster.TagList, f)
    THEN [kind |-> "skipped", cluster |-> NoCluster, called |-> TRUE]
    ELSE LET r == extractRegionFromARN(Deref(dbCluster.DBClusterArn))
         IN  IF r # region
             THEN [kind |-> "skipped", cluster |-> NoCluster, called |-> TRUE]
             ELSE [kind |-> "cluster",
                   cluster |-> [Identifier |-> Deref(dbCluster.DBClusterIdentifier),
                                Endpoint |-> Deref(dbCluster.Endpoint),
                                Port |-> Deref(dbCluster.Port),
                                Arn |-> Deref(dbCluster.DBClusterArn),
                                Region |-> r],
                   called |-> TRUE]

\* One candidate.  tagsErr: the ListTagsForResource call, if issued, fails.
\* called: whether the call was issued.
processDBCluster(dbCluster, f, region, tagsErr) ==
    IF dbCluster.IAMDatabaseAuthenticationEnabled = Nil
           \/ ~Deref(dbCluster.IAMDatabaseAuthenticationEnabled)
    THEN [kind |-> "skipped", cluster |-> NoCluster, called |-> FALSE]
    ELSE IF dbCluster.DBClusterIdentifier = Nil \/ dbCluster.Endpoint = Nil
                \/ dbCluster.Port = Nil
    THEN [kind |-> "skipped", cluster |-> NoCluster, called |-> FALSE]
    ELSE IF tagsErr
    THEN [kind |-> "error", cluster |-> NoCluster, called |-> TRUE]
    ELSE IF ~hasRequiredTags(dbCluster.TagList, f)
    THEN [kind |-> "skipped", cluster |-> NoCluster, called |-> TRUE]
    ELSE LET r == extractRegionFromARN(Deref(dbCluster.DBClusterArn))
         IN  IF r # region
             THEN [kind |-> "skipped", cluster |-> NoCluster, called |-> TRUE]
             ELSE [kind |-> "cluster",
                   cluster |-> [Identifier |-> Deref(dbCluster.DBClusterIdentifier),
                                Endpoint |-> Deref(dbCluster.Endpoint),
                                Port |-> Deref(dbCluster.Port),
                                Arn |-> Deref(dbCluster.DBClusterArn),
                                Region |-> r],
                   called |-> TRUE]

DescribeCall(i) == [call |-> "DescribeDBClusters", page |-> i]
ListTagsCall(arn) == [call |-> "ListTagsForResource", ResourceName |-> arn]

\* The loop over one page.  acc carries the clusters collected and the remote
\* calls issued so far; the failAt-th remote call of the pass fails.  Logging
\* a skipped candidate dereferences its identifier.
RECURSIVE ProcessPage(_, _, _, _, _, _)
ProcessPage(page, j, f, region, failAt, acc) ==
    IF j > Len(page) THEN acc
    ELSE LET p == processDBCluster(page[j], f, region, Len(acc.log) + 1 = failAt)
             log == IF p.called
                    THEN Append(acc.log, ListTagsCall(page[j].DBClusterArn))
                    ELSE acc.log
         IN  IF p.kind = "error"
             THEN [err |-> "tags", clusters |-> <<>>, log |-> log]
             ELSE IF p.kind = "skipped"
             THEN IF page[j].DBClusterIdentifier = Nil
                  THEN [err |-> "panic", clusters |-> <<>>, log |-> log]
                  ELSE ProcessPage(page, j + 1, f, region, failAt,
                                   [acc EXCEPT !.log = log])
             ELSE ProcessPage(page, j + 1, f, region, failAt,
                              [acc EXCEPT !.log = log,
                                          !.clusters = Append(@, p.cluster)])

\* FetchPages that hands back what it has collected when a page fetch fails.
RECURSIVE FetchPages_KeepPartial(_, _, _, _, _, _)
FetchPages_KeepPartial(pages, i, f, region, failAt, acc) ==
    IF i > Len(pages) THEN acc
    ELSE LET log == Append(acc.log, DescribeCall(i))
         IN  IF Len(log) = failAt
             THEN [err |-> "describe", clusters |-> acc.clusters, log |-> log]
             ELSE LET r == ProcessPage(pages[i], 1, f, region, failAt,
                                       [acc EXCEPT !.log = log])
                  IN  IF r.err # "none" THEN r
                      ELSE FetchPages_KeepPartial(pages, i + 1, f, region, failAt, r)

RECURSIVE FetchPages(_, _, _, _, _, _)
FetchPages(pages, i, f, region, failAt, acc) ==
    IF i > Len(pages) THEN acc
    ELSE LET log == Append(acc.log, DescribeCall(i))
         IN  IF Len(log) = failAt
             THEN [err |-> "describe", clusters |-> <<>>, log |-> log]
             ELSE LET r == ProcessPage(pages[i], 1, f, region, failAt,
                                       [acc EXCEPT !.log = log])
                  IN  IF r.err # "none" THEN r
                      ELSE FetchPages(pages, i + 1, f, region, failAt, r)

\* pages: what the paginator returns, page by page (at least one page).
fetchClustersFromAWS(pages, f, region, failAt) ==
    FetchPages(pages, 1, f, region, failAt,
               [err |-> "none", clusters |-> <<>>, log |-> <<>>])

(***************************************************************************)
(* The remote inventory.                                                   *)
(***************************************************************************)
ProdTags == <<Tag("app", "db"), Tag("ReleaseState", "prod")>>
StagingTags == <<Tag("ReleaseState", "staging"), Tag("owner", "x"), Tag("app", "db")>>

DBCluster(id, iam, idPtr, endpoint, port, arn, tags) ==
    [name |-> id,
     IAMDatabaseAuthenticationEnabled |-> iam,
     DBClusterIdentifier |-> idPtr,
     Endpoint |-> endpoint,
     Port |-> port,
     DBClusterArn |-> Some(arn),
     TagList |-> tags]

Plain(id, iam, region, tags) ==
    DBCluster(id, iam, Some(id), Some(<<id, ".", "internal">>), Some(3306),
              ClusterArn(region, id), tags)

DBClusters ==
    { Plain("a1", Some(TRUE), "r1", ProdTags),
      Plain("a2", Some(TRUE), "r1", ProdTags),
      Plain("b1", Some(TRUE), "r2", ProdTags),
      Plain("s1", Some(TRUE), "r1", StagingTags),
      Plain("f1", Some(FALSE), "r1", ProdTags),
      Plain("n1", Nil, "r1", ProdTags),
      DBCluster("e1", Some(TRUE), Some("e1"), Nil, Some(3306),
                ClusterArn("r1", "e1"), ProdTags),
      DBCluster("p1", Some(TRUE), Some("p1"), Some(<<"p1", ".", "internal">>), Nil,
                ClusterArn("r1", "p1"), ProdTags),
      DBCluster("i1", Some(TRUE), Nil, Some(<<"i1", ".", "internal">>), Some(3306),
                ClusterArn("r1", "i1"), ProdTags),
      Plain("c1", Some(TRUE), "r1", <<Tag("app", "db")>>),
      Plain("v1", Some(TRUE), "r1", <<Tag("app", "web"), Tag("ReleaseState", "prod")>>),
      DBCluster("x1", Some(TRUE), Some("x1"), Some(<<"x1", ".", "internal">>),
                Some(3306), <<"arn", "aws", "x1">>, ProdTags) }

\* Listings of at most n candidates, on one page or split over two.
Inventories(S, n) ==
    LET listings == SeqsUpTo(S, n)
    IN  { <<l>> : l \in listings }
            \cup UNION { { <<SubSeq(l, 1, k), SubSeq(l, k + 1, Len(l))>> :
                                k \in 0..Len(l) } : l \in listings }

ValidFilters ==
    { Filter("app", "db", "ReleaseState", v) : v \in {"prod", "staging"} }

(***************************************************************************)
(* DatabaseService.GetClusters.  w is what the environment does during the *)
(* call: whether utils.GetCacheDir succeeds for the load, the listing the  *)
(* inventory returns, which remote call fails (0: none), and the fault of  *)
(* the save.  loads, saves: the calls of loadFromCache and saveToCache.     *)
(***************************************************************************)
NotSaved == [err |-> "none", wrote |-> FALSE]

\* GetClusters that refreshes from the inventory after a cache hit as well.
GetClusters_RefreshOnHit(s, fsys, f, env, t, w) ==
    IF validateTags(f) # "nil"
    THEN [err |-> "validation", clusters |-> <<>>, fs |-> fsys, calls |-> 0,
          loads |-> 0, saves |-> 0, hit |-> FALSE, stage |-> "none",
          save |-> NotSaved]
    ELSE LET ld == loadFromCache(s, fsys, env, t, w.loadDirOk)
             r == fetchClustersFromAWS(w.pages, f, s.config.Region, w.failAt)
         IN  IF r.err # "none"
             THEN [err |-> r.err, clusters |-> <<>>, fs |-> fsys,
                   calls |-> Len(r.log), loads |-> 1, saves |-> 0, hit |-> ld.ok,
                   stage |-> ld.stage, save |-> NotSaved]
             ELSE LET sv == saveToCache(s, fsys, r.clusters, env, t, w.fault.dirOk,
                                        w.fault.mkdirOk, w.fault.written)
                  IN  [err |-> "nil", clusters |-> r.clusters, fs |-> sv.fs,
                       calls |-> Len(r.log), loads |-> 1, saves |-> 1, hit |-> ld.ok,
                       stage |-> ld.stage, save |-> [err |-> sv.err, wrote |-> sv.wrote]]

\* GetClusters that never consults the cache.
GetClusters_SkipLoad(s, fsys, f, env, t, w) ==
    IF validateTags(f) # "nil"
    THEN [err |-> "validation", clusters |-> <<>>, fs |-> fsys, calls |-> 0,
          loads |-> 0, saves |-> 0, hit |-> FALSE, stage |-> "none",
          save |-> NotSaved]
    ELSE LET r == fetchClustersFromAWS(w.pages, f, s.config.Region, w.failAt)
         IN  IF r.err # "none"
             THEN [err |-> r.err, clusters |-> <<>>, fs |-> fsys,
                   calls |-> Len(r.log), loads |-> 0, saves |-> 0, hit |-> FALSE,
                   stage |-> "none", save |-> NotSaved]
             ELSE LET sv == saveToCache(s, fsys, r.clusters, env, t, w.fault.dirOk,
                                        w.fault.mkdirOk, w.fault.written)
                  IN  [err |-> "nil", clusters |-> r.clusters, fs |-> sv.fs,
                       calls |-> Len(r.log), loads |-> 0, saves |-> 1, hit |-> FALSE,
                       stage |-> "none", save |-> [err |-> sv.err, wrote |-> sv.wrote]]

\* GetClusters that gives up when the cache cannot be read, other than for
\* a missing or expired file.
GetClusters_MissIsError(s, fsys, f, env, t, w) ==
    IF validateTags(f) # "nil"
    THEN [err |-> "validation", clusters |-> <<>>, fs |-> fsys, calls |-> 0,
          loads |-> 0, saves |-> 0, hit |-> FALSE, stage |-> "none",
          save |-> NotSaved]
    ELSE LET ld == loadFromCache(s, fsys, env, t, w.loadDirOk)
         IN  IF ld.ok
             THEN [err |-> "nil", clusters |-> ld.clusters, fs |-> fsys, calls |-> 0,
                   loads |-> 1, saves |-> 0, hit |-> TRUE, stage |-> ld.stage,
                   save |-> NotSaved]
             ELSE IF ld.stage \in {"nodir", "noparse", "badduration"}
             THEN [err |-> "cache", clusters |-> <<>>, fs |-> fsys, calls |-> 0,
                   loads |-> 1, saves |-> 0, hit |-> FALSE, stage |-> ld.stage,
                   save |-> NotSaved]
             ELSE LET r == fetchClustersFromAWS(w.pages, f, s.config.Region, w.failAt)
                  IN  IF r.err # "none"
                      THEN [err |-> r.err, clusters |-> <<>>, fs |-> fsys,
                            calls |-> Len(r.log), loads |-> 1, saves |-> 0,
                            hit |-> FALSE, stage |-> ld.stage, save |-> NotSaved]
                      ELSE LET sv == saveToCache(s, fsys, r.clusters, env, t,
                                                 w.fault.dirOk, w.fault.mkdirOk,
                                                 w.fault.written)
                           IN  [err |-> "nil", clusters |-> r.clusters, fs |-> sv.fs,
                                calls |-> Len(r.log), loads |-> 1, saves |-> 1,
                                hit |-> FALSE, stage |-> ld.stage,
                                save |-> [err |-> sv.err, wrote |-> sv.wrote]]

\* GetClusters that returns the error of a failed save.
GetClusters_SaveErrorFails(s, fsys, f, env, t, w) ==
    IF validateTags(f) # "nil"
    THEN [err |-> "validation", clusters |-> <<>>, fs |-> fsys, calls |-> 0,
          loads |-> 0, saves |-> 0, hit |-> FALSE, stage |-> "none",
          save |-> NotSaved]
    ELSE LET ld == loadFromCache(s, fsys, env, t, w.loadDirOk)
         IN  IF ld.ok
             THEN [err |-> "nil", clusters |-> ld.clusters, fs |-> fsys, calls |-> 0,
                   loads |-> 1, saves |-> 0, hit |-> TRUE, stage |-> ld.stage,
                   save |-> NotSaved]
             ELSE LET r == fetchClustersFromAWS(w.pages, f, s.config.Region, w.failAt)
                  IN  IF r.err # "none"
                      THEN [err |-> r.err, clusters |-> <<>>, fs |-> fsys,
                            calls |-> Len(r.log), loads |-> 1, saves |-> 0,
                            hit |-> FALSE, stage |-> ld.stage, save |-> NotSaved]
                      ELSE LET sv == saveToCache(s, fsys, r.clusters, env, t,
                                                 w.fault.dirOk, w.fault.mkdirOk,
                                                 w.fault.written)
                           IN  [err |-> IF sv.err = "none" THEN "nil" ELSE "cache",
                                clusters |-> IF sv.err = "none" THEN r.clusters
                                             ELSE <<>>,
                                fs |-> sv.fs,
                                calls |-> Len(r.log), loads |-> 1, saves |-> 1,
                                hit |-> FALSE, stage |-> ld.stage,
                                save |-> [err |-> sv.err, wrote |-> sv.wrote]]

\* GetClusters that falls back to whatever snapshot the file holds when the
\* discovery fails.
GetClusters_StaleFallback(s, fsys, f, env, t, w) ==
    IF validateTags(f) # "nil"
    THEN [err |-> "validation", clusters |-> <<>>, fs |-> fsys, calls |-> 0,
          loads |-> 0, saves |-> 0, hit |-> FALSE, stage |-> "none",
          save |-> NotSaved]
    ELSE LET ld == loadFromCache(s, fsys, env, t, w.loadDirOk)
         IN  IF ld.ok
             THEN [err |-> "nil", clusters |-> ld.clusters, fs |-> fsys, calls |-> 0,
                   loads |-> 1, saves |-> 0, hit |-> TRUE, stage |-> ld.stage,
                   save |-> NotSaved]
             ELSE LET r == fetchClustersFromAWS(w.pages, f, s.config.Region, w.failAt)
                      stale == parseCacheData(fsys, CacheFilePath(CacheDir, env),
                                              CacheDir)
                  IN  IF r.err # "none"
                      THEN [err |-> IF stale.ok THEN "nil" ELSE r.err,
                            clusters |-> stale.cache.Clusters, fs |-> fsys,
                            calls |-> Len(r.log), loads |-> 1, saves |-> 0,
                            hit |-> FALSE, stage |-> ld.stage, save |-> NotSaved]
                      ELSE LET sv == saveToCache(s, fsys, r.clusters, env, t,
                                                 w.fault.dirOk, w.fault.mkdirOk,
                                                 w.fault.written)
                           IN  [err |-> "nil", clusters |-> r.clusters, fs |-> sv.fs,
                                calls |-> Len(r.log), loads |-> 1, saves |-> 1,
                                hit |-> FALSE, stage |-> ld.stage,
                                save |-> [err |-> sv.err, wrote |-> sv.wrote]]

\* GetClusters that has nothing to save when the discovery finds no target.
GetClusters_SkipEmptySave(s, fsys, f, env, t, w) ==
    IF validateTags(f) # "nil"
    THEN [err |-> "validation", clusters |-> <<>>, fs |-> fsys, calls |-> 0,
          loads |-> 0, saves |-> 0, hit |-> FALSE, stage |-> "none",
          save |-> NotSaved]
    ELSE LET ld == loadFromCache(s, fsys, env, t, w.loadDirOk)
         IN  IF ld.ok
             THEN [err |-> "nil", clusters |-> ld.clusters, fs |-> fsys, calls |-> 0,
                   loads |-> 1, saves |-> 0, hit |-> TRUE, stage |-> ld.stage,
                   save |-> NotSaved]
             ELSE LET r == fetchClustersFromAWS(w.pages, f, s.config.Region, w.failAt)
                  IN  IF r.err # "none"
                      THEN [err |-> r.err, clusters |-> <<>>, fs |-> fsys,
                            calls |-> Len(r.log), loads |-> 1, saves |-> 0,
                            hit |-> FALSE, stage |-> ld.stage, save |-> NotSaved]
                      ELSE IF Len(r.clusters) = 0
                      THEN [err |-> "nil", clusters |-> r.clusters, fs |-> fsys,
                            calls |-> Len(r.log), loads |-> 1, saves |-> 0,
                            hit |-> FALSE, stage |-> ld.stage, save |-> NotSaved]
                      ELSE LET sv == saveToCache(s, fsys, r.clusters, env, t,
                                                 w.fault.dirOk, w.fault.mkdirOk,
                                                 w.fault.written)
                           IN  [err |-> "nil", clusters |-> r.clusters, fs |-> sv.fs,
                                calls |-> Len(r.log), loads |-> 1, saves |-> 1,
                                hit |-> FALSE, stage |-> ld.stage,
                                save |-> [err |-> sv.err, wrote |-> sv.wrote]]

GetClusters(s, fsys, f, env, t, w) ==
    IF validateTags(f) # "nil"
    THEN [err |-> "validation", clusters |-> <<>>, fs |-> fsys, calls |-> 0,
          loads |-> 0, saves |-> 0, hit |-> FALSE, stage |-> "none",
          save |-> NotSaved]
    ELSE LET ld == loadFromCache(s, fsys, env, t, w.loadDirOk)
         IN  IF ld.ok
             THEN [err |-> "nil", clusters |-> ld.clusters, fs |-> fsys, calls |-> 0,
                   loads |-> 1, saves |-> 0, hit |-> TRUE, stage |-> ld.stage,
                   save |-> NotSaved]
             ELSE LET r == fetchClustersFromAWS(w.pages, f, s.config.Region, w.failAt)
                  IN  IF r.err # "none"
                      THEN [err |-> r.err, clusters |-> <<>>, fs |-> fsys,
                            calls |-> Len(r.log), loads |-> 1, saves |-> 0,
                            hit |-> FALSE, stage |-> ld.stage, save |-> NotSaved]
                      ELSE LET sv == saveToCache(s, fsys, r.clusters, env, t,
                                                 w.fault.dirOk, w.fault.mkdirOk,
                                                 w.fault.written)
                           IN  [err |-> "nil", clusters |-> r.clusters, fs |-> sv.fs,
                                calls |-> Len(r.log), loads |-> 1, saves |-> 1,
                                hit |-> FALSE, stage |-> ld.stage,
                                save |-> [err |-> sv.err, wrote |-> sv.wrote]]

(***************************************************************************)
(* State.                                                                  *)
(*   svc     the DatabaseService of the current invocation                 *)
(*   now     the wall clock                                                *)
(*   fs      the files of the cache directory, by path                     *)
(*   remote  the listing the inventory returns, page by page               *)
(*   saved   per scope, the arguments of the save that wrote the file as   *)
(*           it stands (none after a removal or a failed write)            *)
(*   cop     the cache operation under observation, if any                 *)
(*   pass    the discovery pass under observation, if any                  *)
(*   last    the GetClusters call under observation, if any                *)
(*   prev    the GetClusters call before it, when two are observed         *)
(*   wr      a process in saveToCache: its position in os.WriteFile        *)
(*   rd      a process in loadFromCache: its position in os.ReadFile       *)
(*   io      the validation or IAM function under observation, if any      *)
(*   ctx     the context of the invocation: "active" or "cancelled"        *)
(*   run     the invocation in progress: its position and what it has done *)
(* An observed operation is forgotten before the environment moves on, so  *)
(* that svc, now, fs and remote are those the operation ran with.          *)
(***************************************************************************)
NoSave == [valid |-> FALSE, clusters |-> <<>>, at |-> 0]
NoOp == [op |-> "none", env |-> "prod", arg |-> <<>>, ok |-> FALSE, out |-> <<>>,
         stage |-> "none", ts |-> 0]
NoPass == [seen |-> FALSE, pages |-> <<>>, f |-> Filter("", "", "", ""), failAt |-> 0,
           err |-> "none", clusters |-> <<>>, log |-> <<>>]
NoCall == [seen |-> FALSE]
NoWriter == [pc |-> "idle", env |-> "prod", clusters |-> <<>>, at |-> 0, pos |-> 0,
             saves |-> 0, finished |-> {}]
NoReader == [pc |-> "idle", env |-> "prod", buf |-> <<>>]
NoIo == [fn |-> "none"]
NoRun == [pc |-> "idle"]

ByName(n) == CHOOSE c \in DBClusters : c.name = n

\* Two states of the inventory: clusters come and go, and change order.
RemoteListings ==
    { << <<ByName("a1"), ByName("f1"), ByName("b1")>>, <<ByName("s1"), ByName("a2")>> >>,
      << <<ByName("a2"), ByName("a1")>> >> }

ServiceValues(regions, enabled) ==
    { NewServiceValue(r, e, d) : r \in regions, e \in enabled, d \in DurationStrings }

Unobserved ==
    /\ cop = NoOp
    /\ pass = NoPass
    /\ last = NoCall
    /\ prev = NoCall
    /\ io = NoIo

InitWith(services) ==
    /\ svc \in services
    /\ now = 0
    /\ fs = [p \in Paths |-> NoFile]
    /\ remote \in RemoteListings
    /\ saved = [e \in Envs |-> NoSave]
    /\ wr = NoWriter
    /\ rd = NoReader
    /\ ctx = "active"
    /\ run = NoRun
    /\ Unobserved

\* rds.NewService: every invocation of the command constructs its service
\* from the configuration file as it stands.
NewService(services) ==
    /\ \E s \in services : svc' = s /\ s # svc
    /\ UNCHANGED <<now, fs, remote, saved, cop, pass, last, prev, wr, rd, io, ctx, run>>

\* The wall clock advances, or is stepped back.
Tick ==
    /\ now < MaxTime
    /\ now' = now + 1
    /\ UNCHANGED <<svc, fs, remote, saved, cop, pass, last, prev, wr, rd, io, ctx, run>>

ClockBack ==
    /\ now > 0
    /\ now' = now - 1
    /\ UNCHANGED <<svc, fs, remote, saved, cop, pass, last, prev, wr, rd, io, ctx, run>>

\* The operator removes a scope's cache file to force a refresh.
RemoveFile(E) ==
    \E e \in E :
        /\ fs[CacheFilePath(CacheDir, e)].kind # "none"
        /\ fs' = [fs EXCEPT ![CacheFilePath(CacheDir, e)] = NoFile]
        /\ saved' = [saved EXCEPT ![e] = NoSave]
        /\ UNCHANGED <<svc, now, remote, cop, pass, last, prev, wr, rd, io, ctx, run>>

\* Something other than the tool leaves a directory, or a file without
\* permissions, under the name of a scope's cache file.
ReplaceFile(E) ==
    \E e \in E, x \in {Directory, NoPermission} :
        /\ fs[CacheFilePath(CacheDir, e)] # x
        /\ fs' = [fs EXCEPT ![CacheFilePath(CacheDir, e)] = x]
        /\ saved' = [saved EXCEPT ![e] = NoSave]
        /\ UNCHANGED <<svc, now, remote, cop, pass, last, prev, wr, rd, io, ctx, run>>

\* The inventory changes.
RemoteChange ==
    /\ \E l \in RemoteListings : remote' = l /\ l # remote
    /\ UNCHANGED <<svc, now, fs, saved, cop, pass, last, prev, wr, rd, io, ctx, run>>

Forget ==
    /\ ~Unobserved
    /\ cop' = NoOp
    /\ pass' = NoPass
    /\ last' = NoCall
    /\ prev' = NoCall
    /\ io' = NoIo
    /\ UNCHANGED <<svc, now, fs, remote, saved, wr, rd, ctx, run>>

SavedAfter(r, env, clusters) ==
    IF ~r.wrote THEN saved
    ELSE IF r.err = "none"
         THEN [saved EXCEPT ![env] = [valid |-> TRUE, clusters |-> clusters, at |-> now]]
    ELSE [saved EXCEPT ![env] = NoSave]

\* What the environment does to one save: the cache directory cannot be
\* resolved, cannot be created, the file cannot be opened (-1), the write
\* stops after the file was truncated (0 or 1 tokens written), or all is well.
FullWrite == MaxTargets + MaxListing + 3

SaveFaults ==
    { [dirOk |-> TRUE, mkdirOk |-> TRUE, written |-> w] : w \in {-1, 0, 1, FullWrite} }
        \cup { [dirOk |-> FALSE, mkdirOk |-> TRUE, written |-> FullWrite],
               [dirOk |-> TRUE, mkdirOk |-> FALSE, written |-> FullWrite] }

(***************************************************************************)
(* The cache store on its own: save and load of one scope.                 *)
(***************************************************************************)
SaveOf(E, snapshots, faults) ==
    \E env \in E, clusters \in snapshots, f \in faults :
        LET r == saveToCache(svc, fs, clusters, env, now, f.dirOk, f.mkdirOk, f.written)
        IN  /\ fs' = r.fs
            /\ saved' = SavedAfter(r, env, clusters)
            /\ cop' = [op |-> "save", env |-> env, arg |-> clusters,
                       ok |-> r.err = "none", out |-> <<>>, stage |-> r.err, ts |-> now]
            /\ UNCHANGED <<svc, now, remote, pass, last, prev, wr, rd, io, ctx, run>>

Save(E) == SaveOf(E, ClusterSeqs, SaveFaults)

Load(E) ==
    \E env \in E, dirOk \in BOOLEAN :
        LET r == loadFromCache(svc, fs, env, now, dirOk)
        IN  /\ cop' = [op |-> "load", env |-> env, arg |-> <<>>, ok |-> r.ok,
                       out |-> r.clusters, stage |-> r.stage, ts |-> r.ts]
            /\ UNCHANGED <<svc, now, fs, remote, saved, pass, last, prev, wr, rd, io, ctx, run>>

CacheEnvs == {"prod"}
CacheServices == ServiceValues({"r1"}, BOOLEAN)

InitCache == InitWith(CacheServices)

NextCache ==
    \/ /\ Unobserved
       /\ \/ NewService(CacheServices)
          \/ Tick
          \/ ClockBack
          \/ RemoveFile(CacheEnvs)
          \/ Save(CacheEnvs)
          \/ Load(CacheEnvs)
    \/ Forget

SpecCache == InitCache /\ [][NextCache]_vars

(***************************************************************************)
(* Discovery passes on their own: one pass of fetchClustersFromAWS over a  *)
(* listing the inventory returns, with at most one failing call.           *)
(***************************************************************************)
DiscoverServices == { NewServiceValue(r, FALSE, [n |-> 1, unit |-> "h"]) : r \in Regions }

InitDiscover == InitWith(DiscoverServices)

Discover ==
    \E pages \in Inventories(DBClusters, MaxListing), f \in ValidFilters,
       failAt \in 0..(2 + MaxListing) :
        LET r == fetchClustersFromAWS(pages, f, svc.config.Region, failAt)
        IN  /\ pass' = [seen |-> TRUE, pages |-> pages, f |-> f, failAt |-> failAt,
                        err |-> r.err, clusters |-> r.clusters, log |-> r.log]
            /\ UNCHANGED <<svc, now, fs, remote, saved, cop, last, prev, wr, rd, io, ctx, run>>

NextDiscover ==
    \/ /\ Unobserved
       /\ \/ NewService(DiscoverServices)
          \/ Discover
    \/ Forget

SpecDiscover == InitDiscover /\ [][NextDiscover]_vars

(***************************************************************************)
(* Invocations of GetClusters in front of cache and inventory.             *)
(***************************************************************************)
\* The filters of an invocation: the valid ones, and those with one field empty.
CallFilters ==
    ValidFilters \cup { Filter("", "db", "ReleaseState", "prod"),
                        Filter("app", "", "ReleaseState", "prod"),
                        Filter("app", "db", "", "prod"),
                        Filter("app", "db", "ReleaseState", "") }

\* The remote calls a pass over the listing issues when none fails.
RemoteCallsOf(pages, f, region) == Len(fetchClustersFromAWS(pages, f, region, 0).log)

CallRecord(env, f, r, w) ==
    [seen |-> TRUE, env |-> env, f |-> f, at |-> now, err |-> r.err,
     clusters |-> r.clusters, calls |-> r.calls, loads |-> r.loads, saves |-> r.saves,
     hit |-> r.hit, stage |-> r.stage, saveErr |-> r.save.err,
     failAt |-> IF w.failAt >= 1 /\ r.calls >= w.failAt THEN w.failAt ELSE 0,
     loadDirOk |-> w.loadDirOk,
     snap |-> IF r.saves = 1 THEN SavedAfter(r.save, env, r.clusters)[env]
              ELSE saved[env]]

\* What the environment does during one call: at most one fault, in a
\* remote call of the pass or in the save that follows a complete pass.
NoFault == [dirOk |-> TRUE, mkdirOk |-> TRUE, written |-> FullWrite]

CallFaults(pages, f, region, saveFaults) ==
    { [failAt |-> k, fault |-> NoFault] : k \in 1..RemoteCallsOf(pages, f, region) }
        \cup { [failAt |-> 0, fault |-> x] : x \in saveFaults \cup {NoFault} }

GetClustersCall(E, F, saveFaults) ==
    \E env \in E, f \in F, loadDirOk \in BOOLEAN :
      \E c \in CallFaults(remote, f, svc.config.Region, saveFaults) :
        LET w == [loadDirOk |-> loadDirOk, pages |-> remote, failAt |-> c.failAt,
                  fault |-> c.fault]
            r == GetClusters(svc, fs, f, env, now, w)
        IN  /\ fs' = r.fs
            /\ saved' = IF r.saves = 1 THEN SavedAfter(r.save, env, r.clusters)
                        ELSE saved
            /\ prev' = last
            /\ last' = CallRecord(env, f, r, w)
            /\ UNCHANGED <<svc, now, remote, cop, pass, wr, rd, io, ctx, run>>

OrchEnvs == {"prod"}
OrchServices ==
    ServiceValues(Regions, {TRUE}) \cup { NewServiceValue("r1", FALSE, [n |-> 1, unit |-> "h"]) }

Init == InitWith(OrchServices)

Next ==
    \/ /\ Unobserved
       /\ \/ NewService(OrchServices)
          \/ Tick
          \/ ClockBack
          \/ RemoteChange
          \/ RemoveFile(OrchEnvs)
          \/ ReplaceFile(OrchEnvs)
          \/ GetClustersCall(OrchEnvs, CallFilters, SaveFaults)
    \/ Forget

Spec == Init /\ [][Next]_vars

(***************************************************************************)
(* Two consecutive invocations for the same scope and filters: between the *)
(* first and the second the clock moves and the inventory changes, the     *)
(* configuration and the cache file are left alone.  A fault of the second *)
(* call's save comes too late to change what the call returns.             *)
(***************************************************************************)
RepeatServices ==
    { s \in ServiceValues({"r1"}, {TRUE}) : s.cacheConfig.Duration.n >= 0 }
        \cup { NewServiceValue("r1", FALSE, [n |-> 1, unit |-> "h"]) }

RepeatFilters == { Filter("app", "db", "ReleaseState", "prod") }

InitRepeat == InitWith(RepeatServices)

NextRepeat ==
    \/ /\ Unobserved
       /\ \/ NewService(RepeatServices)
          \/ Tick
          \/ RemoteChange
          \/ GetClustersCall(OrchEnvs, RepeatFilters, SaveFaults)
    \/ /\ last # NoCall
       /\ prev = NoCall
       /\ \/ Tick
          \/ RemoteChange
          \/ GetClustersCall({last.env}, {last.f}, {})
    \/ Forget

SpecRepeat == InitRepeat /\ [][NextRepeat]_vars

(***************************************************************************)
(* One process in saveToCache and another in loadFromCache, on the file of *)
(* the same scope.  os.WriteFile opens the file with O_TRUNC and writes    *)
(* the document, which may reach the file in several pieces; os.ReadFile   *)
(* reads from its offset until a read returns nothing.  The steps of the   *)
(* two processes interleave freely.                                        *)
(***************************************************************************)
RaceServices == { s \in ServiceValues({"r1"}, {TRUE}) : s.cacheConfig.Duration.n >= 1 }

RaceEnvs == {"prod"}

\* The saves one behaviour starts.
MaxSaves == 2

\* Snapshots of different content and of different length.
RaceSnapshots ==
    { s \in ClusterSeqs : Len(s) = 1 }
        \cup { s \in ClusterSeqs : Len(s) = 2 /\ s[1] # s[2] /\ s[1].Region = "r1" }

WriterData == MarshalIndent([Clusters |-> wr.clusters, Timestamp |-> wr.at])

\* saveToCache up to the call of os.WriteFile: the document is marshalled
\* with the time of this moment.
WriterStart(E, snapshots) ==
    /\ wr.pc = "idle"
    /\ wr.saves < MaxSaves
    /\ svc.cacheConfig.Enabled
    /\ \E env \in E, clusters \in snapshots :
           wr' = [wr EXCEPT !.pc = "open", !.env = env, !.clusters = clusters,
                            !.at = now, !.pos = 0, !.saves = @ + 1]
    /\ UNCHANGED <<svc, now, fs, remote, saved, cop, pass, last, prev, rd, io, ctx, run>>

\* os.WriteFile opens the file and truncates it.
WriterOpen ==
    /\ wr.pc = "open"
    /\ CanOpenForWrite(fs, CacheFilePath(CacheDir, wr.env))
    /\ fs' = [fs EXCEPT ![CacheFilePath(CacheDir, wr.env)] = RegularFile(<<>>)]
    /\ saved' = [saved EXCEPT ![wr.env] = NoSave]
    /\ wr' = [wr EXCEPT !.pc = "write"]
    /\ UNCHANGED <<svc, now, remote, cop, pass, last, prev, rd, io, ctx, run>>

\* The next piece of the document reaches the file; with the last piece the
\* save has finished.
WriterWrite ==
    /\ wr.pc = "write"
    /\ \E k \in (wr.pos + 1)..Len(WriterData) :
           /\ fs' = [fs EXCEPT ![CacheFilePath(CacheDir, wr.env)] =
                                   RegularFile(SubSeq(WriterData, 1, k))]
           /\ IF k = Len(WriterData)
              THEN /\ wr' = [wr EXCEPT !.pc = "idle", !.pos = 0,
                                       !.finished = @ \cup {[clusters |-> wr.clusters,
                                                             at |-> wr.at]}]
                   /\ saved' = [saved EXCEPT ![wr.env] =
                                    [valid |-> TRUE, clusters |-> wr.clusters,
                                     at |-> wr.at]]
              ELSE /\ wr' = [wr EXCEPT !.pos = k]
                   /\ UNCHANGED saved
    /\ UNCHANGED <<svc, now, remote, cop, pass, last, prev, rd, io, ctx, run>>

\* The open or a write fails: saveToCache returns the error and the file
\* stays as it is.
WriterFail ==
    /\ wr.pc \in {"open", "write"}
    /\ wr' = [wr EXCEPT !.pc = "idle", !.pos = 0]
    /\ UNCHANGED <<svc, now, fs, remote, saved, cop, pass, last, prev, rd, io, ctx, run>>

LoadObserved(env, r) ==
    [op |-> "load", env |-> env, arg |-> <<>>, ok |-> r.ok, out |-> r.clusters,
     stage |-> r.stage, ts |-> r.ts]

\* loadFromCache up to os.Stat in validateCacheFile.
ReaderStat(E) ==
    /\ rd.pc = "idle"
    /\ cop = NoOp
    /\ \E env \in E :
           IF validateCacheFile(fs, CacheFilePath(CacheDir, env)) = "ok"
           THEN /\ rd' = [pc |-> "read", env |-> env, buf |-> <<>>]
                /\ UNCHANGED cop
           ELSE /\ cop' = LoadObserved(env, loadFromCache(svc, fs, env, now, TRUE))
                /\ UNCHANGED rd
    /\ UNCHANGED <<svc, now, fs, remote, saved, pass, last, prev, wr, io, ctx, run>>

\* One read of os.ReadFile: what the file holds from the reader's offset on.
\* At the end of the file the rest of loadFromCache runs on what was read.
ReaderRead ==
    /\ rd.pc = "read"
    /\ LET file == fs[CacheFilePath(CacheDir, rd.env)]
           rest == SubSeq(file.data, Len(rd.buf) + 1, Len(file.data))
           seen == [fs EXCEPT ![CacheFilePath(CacheDir, rd.env)] = RegularFile(rd.buf)]
       IN  IF rest # <<>>
           THEN /\ rd' = [rd EXCEPT !.buf = @ \o rest]
                /\ UNCHANGED cop
           ELSE /\ rd' = NoReader
                /\ cop' = LoadObserved(rd.env, loadFromCache(svc, seen, rd.env, now, TRUE))
    /\ UNCHANGED <<svc, now, fs, remote, saved, pass, last, prev, wr, io, ctx, run>>

ForgetLoad ==
    /\ cop # NoOp
    /\ cop' = NoOp
    /\ UNCHANGED <<svc, now, fs, remote, saved, pass, last, prev, wr, rd, io, ctx, run>>

InitRace ==
    /\ svc \in RaceServices
    /\ now = 0
    /\ fs = [p \in Paths |-> NoFile]
    /\ remote = <<>>
    /\ saved = [e \in Envs |-> NoSave]
    /\ wr = NoWriter
    /\ rd = NoReader
    /\ ctx = "active"
    /\ run = NoRun
    /\ Unobserved

NextRace ==
    \/ /\ cop = NoOp
       /\ \/ rd.pc = "idle" /\ wr.pc = "idle" /\ Tick
          \/ WriterStart(RaceEnvs, RaceSnapshots)
          \/ WriterOpen
          \/ WriterWrite
          \/ WriterFail
          \/ ReaderStat(RaceEnvs)
          \/ ReaderRead
    \/ ForgetLoad

SpecRace == InitRace /\ [][NextRace]_vars

(***************************************************************************)
(* The cache files of two scopes side by side: saves and loads of either   *)
(* scope, one target per snapshot, a save complete or torn.                *)
(***************************************************************************)
ScopeServices == { s \in ServiceValues({"r1"}, {TRUE}) : s.cacheConfig.Duration.n >= 1 }

ScopeSnapshots == { <<c>> : c \in Clusters }

ScopeFaults == { NoFault, [dirOk |-> TRUE, mkdirOk |-> TRUE, written |-> 1] }

InitScopes == InitWith(ScopeServices)

NextScopes ==
    \/ /\ Unobserved
       /\ \/ Tick
          \/ RemoveFile(Envs)
          \/ SaveOf(Envs, ScopeSnapshots, ScopeFaults)
          \/ Load(Envs)
    \/ Forget

SpecScopes == InitScopes /\ [][NextScopes]_vars

(***************************************************************************)
(* Properties of a discovery pass (SpecDiscover).                          *)
(***************************************************************************)
\* Whether a result holds a given candidate of the listing.
Includes(clusters, dbCluster) ==
    \E k \in 1..Len(clusters) : clusters[k].Arn = Deref(dbCluster.DBClusterArn)

\* The candidate passes every check of processDBCluster.
Matches(dbCluster, f, region) ==
    processDBCluster(dbCluster, f, region, FALSE).kind = "cluster"

\* The failing remote call of the pass was actually issued.
RemoteCallFailed == pass.seen /\ pass.failAt >= 1 /\ Len(pass.log) >= pass.failAt

\* C2: a pass in which a page fetch or a tag lookup fails returns an error
\* and no targets, whatever it had collected before the failure.
C2_AllOrNothing ==
    RemoteCallFailed => pass.err \in {"describe", "tags"} /\ pass.clusters = <<>>

\* A second page fetch fails after the first page yielded a matching target.
C2_Witness ==
    /\ RemoteCallFailed
    /\ pass.failAt = 3
    /\ pass.log[3].call = "DescribeDBClusters"
    /\ Len(pass.pages[1]) = 1
    /\ Matches(pass.pages[1][1], pass.f, svc.config.Region)

\* C4: a listed resource whose ARN region differs from the configured region
\* is never part of the result of a pass.
C4_OtherRegionExcluded ==
    pass.seen =>
        \A i \in 1..Len(pass.pages) : \A j \in 1..Len(pass.pages[i]) :
            LET c == pass.pages[i][j]
            IN  extractRegionFromARN(Deref(c.DBClusterArn)) # svc.config.Region
                    => ~Includes(pass.clusters, c)

\* A pass that succeeds with a target, over a listing that also holds a
\* resource of the other region with identity authentication and both tags.
C4_Witness ==
    /\ pass.seen /\ pass.err = "none" /\ pass.clusters # <<>>
    /\ \E i \in 1..Len(pass.pages) : \E j \in 1..Len(pass.pages[i]) :
           LET c == pass.pages[i][j]
               r == extractRegionFromARN(Deref(c.DBClusterArn))
           IN  /\ r # svc.config.Region
               /\ r \in Regions
               /\ Matches(c, pass.f, r)

\* C5: a listed resource whose identity-authentication flag is absent or
\* false is never part of the result of a pass.
C5_NoIamAuthExcluded ==
    pass.seen =>
        \A i \in 1..Len(pass.pages) : \A j \in 1..Len(pass.pages[i]) :
            LET c == pass.pages[i][j]
            IN  (c.IAMDatabaseAuthenticationEnabled = Nil
                     \/ ~Deref(c.IAMDatabaseAuthenticationEnabled))
                    => ~Includes(pass.clusters, c)

\* A pass that succeeds with a target, over a listing that also holds a
\* resource with the flag set to false, both tags and the configured region.
C5_Witness ==
    /\ pass.seen /\ pass.err = "none" /\ pass.clusters # <<>>
    /\ \E i \in 1..Len(pass.pages) : \E j \in 1..Len(pass.pages[i]) :
           LET c == pass.pages[i][j]
           IN  /\ c.IAMDatabaseAuthenticationEnabled = Some(FALSE)
               /\ hasRequiredTags(c.TagList, pass.f)
               /\ extractRegionFromARN(Deref(c.DBClusterArn)) = svc.config.Region

(***************************************************************************)
(* Properties of the cache store (SpecCache).  cop is the operation of the *)
(* last step, so svc, now and fs are still those the operation ran with.   *)
(***************************************************************************)
ConfiguredDuration == ParseDuration(svc.cacheConfig.Duration)

\* The load of the last step got as far as the expiry test.
LoadedSnapshot == cop.op = "load" /\ cop.stage \in {"expired", "hit"}

\* Age of the scope's snapshot at the load of the last step.
SnapshotAge == now - saved[cop.env].at

\* C7: with caching enabled and a parseable duration, a load that follows a
\* successful save of T for the same scope, with no file operation between
\* them, the cache directory still resolvable and 0 <= elapsed <= duration,
\* is a hit that returns T, element by element in the same order.
C7_RoundTrip ==
    ( /\ cop.op = "load"
      /\ cop.stage # "nodir"
      /\ svc.cacheConfig.Enabled
      /\ ConfiguredDuration.ok
      /\ saved[cop.env].valid
      /\ 0 <= SnapshotAge
      /\ SnapshotAge <= ConfiguredDuration.d )
        => cop.ok /\ cop.out = saved[cop.env].clusters

\* A hit, some time after the save, on two different targets.
C7_Witness ==
    /\ cop.op = "load" /\ cop.ok
    /\ saved[cop.env].valid /\ SnapshotAge > 0
    /\ Len(cop.out) = 2 /\ cop.out[1] # cop.out[2]

\* C9 as stated: a snapshot captured exactly one duration ago is a miss.
C9_BoundaryIsExpired ==
    (LoadedSnapshot /\ saved[cop.env].valid /\ SnapshotAge = ConfiguredDuration.d)
        => ~cop.ok

\* C9 as amended: for a duration that is not negative, a snapshot captured
\* exactly one duration ago is still valid (a hit); only an age strictly
\* greater than the duration expires it.
C9_BoundaryIsValid ==
    ( /\ LoadedSnapshot /\ saved[cop.env].valid
      /\ ConfiguredDuration.d >= 0
      /\ SnapshotAge = ConfiguredDuration.d )
        => cop.ok /\ cop.out = saved[cop.env].clusters

\* A load at the boundary of a positive duration.
C9_Witness ==
    /\ LoadedSnapshot /\ saved[cop.env].valid
    /\ ConfiguredDuration.d > 0
    /\ SnapshotAge = ConfiguredDuration.d

\* C10: a hit only for a snapshot with 0 <= now - capturedAt <= duration.
C10_HitOnlyWhileValid ==
    (cop.op = "load" /\ cop.ok) =>
        /\ saved[cop.env].valid
        /\ ConfiguredDuration.ok
        /\ 0 <= SnapshotAge
        /\ SnapshotAge <= ConfiguredDuration.d

\* A load, under a positive duration, of a snapshot captured after the time
\* of the read: a miss at the expiry test.
C10_Witness ==
    /\ LoadedSnapshot /\ saved[cop.env].valid
    /\ SnapshotAge < 0
    /\ ConfiguredDuration.d > 0
    /\ ~cop.ok


(***************************************************************************)
(* Properties of GetClusters.  In Spec the call under observation is the   *)
(* last step; in SpecRepeat prev is the first call of a pair and last the  *)
(* second.                                                                 *)
(***************************************************************************)
AnyTagFieldEmpty(f) ==
    f.tagName = "" \/ f.tagValue = "" \/ f.envTagName = "" \/ f.envTagValue = ""

\* C1: a call with at least one of the four tag fields empty fails with a
\* validation error, and has made no remote call, no cache read and no cache
\* write when it returns.
C1_ValidationFirst ==
    last # NoCall /\ AnyTagFieldEmpty(last.f) =>
        /\ last.err = "validation"
        /\ last.clusters = <<>>
        /\ last.calls = 0
        /\ last.loads = 0
        /\ last.saves = 0

\* An empty environment tag value is rejected although the scope has a
\* snapshot in place and caching is enabled.
C1_Witness ==
    /\ last # NoCall
    /\ last.f.envTagValue = ""
    /\ last.f.tagName # ""
    /\ last.f.tagValue # ""
    /\ last.err = "validation"
    /\ svc.cacheConfig.Enabled
    /\ saved[last.env].valid

\* C3: a call whose cache load is a hit returns exactly the snapshot's target
\* sequence, issues no remote call and writes no cache file.
C3_HitIsAuthoritative ==
    last # NoCall /\ last.hit =>
        /\ last.err = "nil"
        /\ last.clusters = saved[last.env].clusters
        /\ last.calls = 0
        /\ last.saves = 0

\* A hit returns a non-empty snapshot that a pass over the inventory as it
\* stands would not have produced.
C3_Witness ==
    /\ last # NoCall
    /\ last.hit
    /\ last.clusters # <<>>
    /\ last.clusters = saved[last.env].clusters
    /\ last.clusters #
           fetchClustersFromAWS(remote, last.f, svc.config.Region, 0).clusters

\* The resource a target was made from.
ResourceOf(cluster) == CHOOSE r \in DBClusters : Deref(r.DBClusterArn) = cluster.Arn

\* C6: every target a call returns, from a live pass or from a snapshot,
\* belongs to a resource that has IAM authentication enabled, carries both
\* tag pairs requested in that call, and lies in the region configured for
\* that call.
C6_TargetsMatchInvocation ==
    last # NoCall /\ last.err = "nil" =>
        \A k \in 1..Len(last.clusters) :
            LET r == ResourceOf(last.clusters[k])
            IN  /\ r.IAMDatabaseAuthenticationEnabled = Some(TRUE)
                /\ hasRequiredTags(r.TagList, last.f)
                /\ extractRegionFromARN(Deref(r.DBClusterArn)) = svc.config.Region

\* The second call of a pair is made within the configured cache duration,
\* counted from the instant given.
WithinDurationOf(from) ==
    /\ ConfiguredDuration.ok
    /\ 0 <= last.at - from
    /\ last.at - from <= ConfiguredDuration.d

FirstCallOnSnapshot ==
    /\ prev # NoCall
    /\ prev.err = "nil"
    /\ prev.hit \/ (prev.saves = 1 /\ prev.saveErr = "none")

C11_DayUnit ==
    ( /\ cop.op = "load"
      /\ cop.stage # "nodir"
      /\ svc.cacheConfig.Enabled
      /\ svc.cacheConfig.Duration = [n |-> 1, unit |-> "d"]
      /\ saved[cop.env].valid )
    => /\ (0 <= SnapshotAge /\ SnapshotAge < 24) => cop.ok
       /\ SnapshotAge > 24 => ~cop.ok

(***************************************************************************)
(* Scope isolation.                                                        *)
(***************************************************************************)
OtherScopes(env) == Envs \ {env}

\* C12: a save for one scope changes neither the file of another scope nor
\* what a load for another scope returns, and a load that is a hit returns
\* the targets of the last save for its own scope, never those written by a
\* save for another scope.
C12_ScopeIsolation ==
    [][ /\ cop'.op = "save" =>
               \A b \in OtherScopes(cop'.env) :
                   /\ fs'[CacheFilePath(CacheDir, b)] = fs[CacheFilePath(CacheDir, b)]
                   /\ \A d \in BOOLEAN :
                          loadFromCache(svc, fs', b, now, d)
                              = loadFromCache(svc, fs, b, now, d)
        /\ (cop'.op = "load" /\ cop'.ok) =>
               /\ saved[cop'.env].valid
               /\ cop'.out = saved[cop'.env].clusters ]_vars

\* A hit for one scope while the other scope holds a valid snapshot of
\* another target, which a load for that scope would return.
C12_Witness ==
    /\ cop.op = "load" /\ cop.ok
    /\ cop.out # <<>>
    /\ \E b \in OtherScopes(cop.env) :
           /\ saved[b].valid
           /\ saved[b].clusters # cop.out
           /\ loadFromCache(svc, fs, b, now, TRUE).ok
           /\ loadFromCache(svc, fs, b, now, TRUE).clusters = saved[b].clusters

(***************************************************************************)
(* GetClusters when the cache or the discovery fails.                      *)
(***************************************************************************)
\* The result of a pass over the inventory in which no remote call fails.
LiveResult == fetchClustersFromAWS(remote, last.f, svc.config.Region, 0).clusters

DiscoveryErrors == {"describe", "tags"}

\* The file of the scope of the call.
ScopeFile(fsys) == fsys[CacheFilePath(CacheDir, last.env)]

\* C13: a load that finds caching disabled, the cache directory unavailable,
\* the file missing, unreadable or not a regular file, the content or the
\* duration string unparseable, is a miss and no error: GetClusters goes on
\* to the live discovery, and fails only if the discovery fails.
C13_LoadNeverFails ==
    ( /\ last # NoCall
      /\ last.loads = 1
      /\ last.stage \in {"disabled", "nodir", "nofile", "noparse", "badduration"} )
    => /\ ~last.hit
       /\ last.calls >= 1
       /\ last.err \in {"nil"} \cup DiscoveryErrors
       /\ last.err = "nil" => last.clusters = LiveResult

\* A call that finds a file it cannot read, or a directory in its place, or
\* a duration it cannot parse, and returns the targets discovered live.
C13_Witness ==
    /\ last # NoCall
    /\ last.stage \in {"nofile", "noparse", "badduration"}
    /\ \/ ScopeFile(fs).kind \in {"dir", "noperm"}
       \/ last.stage = "badduration"
    /\ last.err = "nil"
    /\ last.clusters # <<>>
    /\ last.clusters = LiveResult

\* C14: when the save that follows a successful live discovery fails,
\* GetClusters still returns the complete result of the discovery and no
\* error; the save is attempted once, after the discovery.
C14_SaveFailureIgnored ==
    ( /\ last # NoCall
      /\ last.saveErr # "none" )
    => /\ last.err = "nil"
       /\ ~last.hit
       /\ last.calls >= 1
       /\ last.clusters = LiveResult
       /\ last.saves = 1

\* A torn write: the call returns the discovered targets and leaves a file
\* that does not parse.
C14_Witness ==
    /\ last # NoCall
    /\ last.saveErr = "write"
    /\ last.err = "nil"
    /\ last.clusters # <<>>
    /\ ScopeFile(fs).kind = "regular"
    /\ ~Unmarshal(ScopeFile(fs).data).ok

\* C15: a call whose live discovery fails (failAt: the remote call that
\* failed) returns the discovery error and no
\* targets, attempts no save and leaves the files as they were; a call
\* changes a file only after a successful live discovery.
C15_NoStaleFallback ==
    [][ last' # NoCall /\ last' # last =>
           /\ last'.failAt >= 1 =>
                  /\ last'.err \in DiscoveryErrors
                  /\ last'.clusters = <<>>
                  /\ last'.saves = 0
                  /\ fs' = fs
           /\ fs' # fs =>
                  /\ last'.err = "nil"
                  /\ ~last'.hit
                  /\ last'.saves = 1 ]_vars

\* The discovery fails while the scope's file holds an expired snapshot
\* with targets in it.
C15_Witness ==
    /\ last # NoCall
    /\ last.failAt >= 1
    /\ last.err \in DiscoveryErrors
    /\ last.stage = "expired"
    /\ saved[last.env].valid
    /\ saved[last.env].clusters # <<>>
    /\ last.clusters = <<>>

(***************************************************************************)
(* A load that overlaps a save of the same scope.                          *)
(***************************************************************************)
\* C16: whatever the interleaving of the writer's truncation and writes with
\* the reader's reads, a load that is a hit returns the complete target
\* sequence, with its timestamp, of one finished save; anything else it has
\* read is a miss.
C16_NoTornRead ==
    (cop.op = "load" /\ cop.ok) =>
        \E s \in wr.finished : s.clusters = cop.out /\ s.at = cop.ts

(***************************************************************************)
(* The identity of the caller and the access check (aws.Config).  A string *)
(* is the sequence of its pieces: the separators ":" and "/" and the       *)
(* names between them.                                                     *)
(***************************************************************************)
NilError == <<>>

Partitions == {"aws", "aws-cn"}
ArnServices == {"sts", "iam"}
Accounts == {"111", "222", "acct"}
DigitStrings == {"111", "222"}
RoleNames == {"admin", "dev"}

\* The resource part of the ARNs the identity service returns.
IdentityResources ==
    UNION { { <<"assumed-role", "/", r, "/", "s1">>,
              <<"assumed-role", "/", r, "/">>,
              <<"assumed-role", "/", r, "/", "s1", "/", "s2">>,
              <<"assumed-role", "/", r>>,
              <<"role", "/", r>>,
              <<"user", "/", r>>,
              <<"federated-user", "/", r>> } : r \in RoleNames }
        \cup { <<"root">> }

ArnString(partition, service, account, resource) ==
    <<"arn", ":", partition, ":", service, ":", ":", account, ":">> \o resource

GetCallerIdentityErrors == { <<"ExpiredToken">> }

\* What stsClient.GetCallerIdentity returns: the ARN, and beside it the parts
\* it was put together from.
CallerIdentities ==
    { [err |-> NilError, Arn |-> ArnString(p, s, a, r), parts |-> <<p, s, a, r>>] :
        p \in Partitions, s \in ArnServices, a \in Accounts, r \in IdentityResources }
        \cup { [err |-> e, Arn |-> <<>>, parts |-> <<>>] : e \in GetCallerIdentityErrors }

At(s, i) == IF i \in 1..Len(s) THEN s[i] ELSE "<end>"

AssumedRolePrefix == <<"arn", ":", "aws", ":", "sts", ":", ":">>

\* The end of the role name: [^/]+ takes everything up to the next "/".
RoleEnd(s, from) ==
    IF \E j \in from..Len(s) : s[j] = "/"
    THEN (CHOOSE j \in from..Len(s) : s[j] = "/" /\ \A k \in from..(j - 1) : s[k] # "/") - 1
    ELSE 0

\* arn:aws:sts::(\d+):assumed-role/([^/]+)/.* matched at position i.
MatchesAt(s, i) ==
    /\ \A k \in 1..Len(AssumedRolePrefix) : At(s, i + k - 1) = AssumedRolePrefix[k]
    /\ At(s, i + 7) \in DigitStrings
    /\ At(s, i + 8) = ":"
    /\ At(s, i + 9) = "assumed-role"
    /\ At(s, i + 10) = "/"
    /\ RoleEnd(s, i + 11) >= i + 11

\* re.FindStringSubmatch: the leftmost match with its two groups, or nothing.
FindStringSubmatch(s) ==
    IF \E i \in 1..Len(s) : MatchesAt(s, i)
    THEN LET i == CHOOSE i \in 1..Len(s) :
                      MatchesAt(s, i) /\ \A k \in 1..(i - 1) : ~MatchesAt(s, k)
         IN  << SubSeq(s, i, Len(s)),
                <<s[i + 7]>>,
                SubSeq(s, i + 11, RoleEnd(s, i + 11)) >>
    ELSE <<>>

\* A GetCurrentIAMRole for which an identity of another shape is an error.
GetCurrentIAMRole_Strict(identity) ==
    IF identity.err # NilError
    THEN [arn |-> <<>>, err |-> <<"failed to get caller identity: ">> \o identity.err]
    ELSE LET matches == FindStringSubmatch(identity.Arn)
         IN  IF Len(matches) = 3
             THEN [arn |-> <<"arn", ":", "aws", ":", "iam", ":", ":">> \o matches[2]
                              \o <<":", "role", "/">> \o matches[3],
                   err |-> NilError]
             ELSE [arn |-> <<>>, err |-> <<"not an assumed role">>]

\* Config.GetCurrentIAMRole
GetCurrentIAMRole(identity) ==
    IF identity.err # NilError
    THEN [arn |-> <<>>, err |-> <<"failed to get caller identity: ">> \o identity.err]
    ELSE LET matches == FindStringSubmatch(identity.Arn)
         IN  IF Len(matches) = 3
             THEN [arn |-> <<"arn", ":", "aws", ":", "iam", ":", ":">> \o matches[2]
                              \o <<":", "role", "/">> \o matches[3],
                   err |-> NilError]
             ELSE [arn |-> identity.Arn, err |-> NilError]

\* The decisions of the policy simulator.
Decisions == {"allowed", "explicitDeny", "implicitDeny"}

MaxResults == 3

EvaluationResults == SeqsUpTo({ [EvalDecision |-> d] : d \in Decisions }, MaxResults)

SimulateErrors == { <<"AccessDenied">> }

\* What iamClient.SimulatePrincipalPolicy returns.
SimulateOutputs ==
    { [err |-> NilError, EvaluationResults |-> r] : r \in EvaluationResults }
        \cup { [err |-> e, EvaluationResults |-> <<>>] : e \in SimulateErrors }

ResourceIDs == {"cluster-A1", "cluster-B2"}
DBUsers == {"app", "ro"}

\* The roles GetCurrentIAMRole hands to the access check.
IamRoles ==
    { GetCurrentIAMRole(i).arn :
        i \in { c \in CallerIdentities :
                  /\ c.err = NilError
                  /\ c.parts[1] = "aws"
                  /\ c.parts[3] = "111"
                  /\ c.parts[4] \in { <<"assumed-role", "/", r, "/", "s1">> : r \in RoleNames } } }

\* The request CheckIAMUserAccess sends.
SimulateInput(iamRole, resourceID, dbUserID) ==
    [PolicySourceArn |-> iamRole,
     ActionNames |-> <<"rds-db:connect">>,
     ResourceArns |-> << <<"arn:aws:rds-db:*:*:dbuser:", resourceID, "/", dbUserID>> >>]

\* A CheckIAMUserAccess that takes no results for a denial.
CheckIAMUserAccess_EmptyIsDenied(output) ==
    IF output.err # NilError
    THEN <<"failed to simulate IAM policy: ">> \o output.err
    ELSE IF Len(output.EvaluationResults) = 0
         THEN <<"IAM access denied: ", "implicitDeny">>
         ELSE LET lastResult == output.EvaluationResults[Len(output.EvaluationResults)]
              IN  IF lastResult.EvalDecision # "allowed"
                  THEN <<"IAM access denied: ", lastResult.EvalDecision>>
                  ELSE NilError

\* A CheckIAMUserAccess that decides on the first result.
CheckIAMUserAccess_FirstResult(output) ==
    IF output.err # NilError
    THEN <<"failed to simulate IAM policy: ">> \o output.err
    ELSE IF Len(output.EvaluationResults) = 0
         THEN <<"no evaluation results found">>
         ELSE LET lastResult == output.EvaluationResults[1]
              IN  IF lastResult.EvalDecision # "allowed"
                  THEN <<"IAM access denied: ", lastResult.EvalDecision>>
                  ELSE NilError

\* Config.CheckIAMUserAccess, from the answer of the simulator on: the error
\* it returns, NilError for none.
CheckIAMUserAccess(output) ==
    IF output.err # NilError
    THEN <<"failed to simulate IAM policy: ">> \o output.err
    ELSE IF Len(output.EvaluationResults) = 0
         THEN <<"no evaluation results found">>
         ELSE LET lastResult == output.EvaluationResults[Len(output.EvaluationResults)]
              IN  IF lastResult.EvalDecision # "allowed"
                  THEN <<"IAM access denied: ", lastResult.EvalDecision>>
                  ELSE NilError

\* The service no call of this part touches.
IdleService == CHOOSE s \in ServiceValues({"r1"}, {FALSE}) : TRUE

InitIdle ==
    /\ svc = IdleService
    /\ now = 0
    /\ fs = [p \in Paths |-> NoFile]
    /\ remote = <<>>
    /\ saved = [e \in Envs |-> NoSave]
    /\ wr = NoWriter
    /\ rd = NoReader
    /\ ctx = "active"
    /\ run = NoRun
    /\ Unobserved

\* One call of GetCurrentIAMRole.
CurrentRole ==
    /\ \E identity \in CallerIdentities :
           io' = [fn |-> "GetCurrentIAMRole", identity |-> identity,
                  out |-> GetCurrentIAMRole(identity)]
    /\ UNCHANGED <<svc, now, fs, remote, saved, cop, pass, last, prev, wr, rd, ctx, run>>

NextIdentity ==
    \/ Unobserved /\ CurrentRole
    \/ Forget

SpecIdentity == InitIdle /\ [][NextIdentity]_vars

\* One call of CheckIAMUserAccess.
CheckAccess ==
    /\ \E iamRole \in IamRoles, resourceID \in ResourceIDs, dbUserID \in DBUsers,
          output \in SimulateOutputs :
           io' = [fn |-> "CheckIAMUserAccess",
                  input |-> SimulateInput(iamRole, resourceID, dbUserID),
                  output |-> output,
                  err |-> CheckIAMUserAccess(output)]
    /\ UNCHANGED <<svc, now, fs, remote, saved, cop, pass, last, prev, wr, rd, ctx, run>>

NextAccess ==
    \/ Unobserved /\ CheckAccess
    \/ Forget

SpecAccess == InitIdle /\ [][NextAccess]_vars

\* C17: when the simulation succeeds with no evaluation result, the access
\* check fails with the error that no result was found: it neither succeeds
\* nor reports an access-denied decision.
C17_NoResultsInconclusive ==
    (/\ io.fn = "CheckIAMUserAccess"
     /\ io.output.err = NilError
     /\ io.output.EvaluationResults = <<>>)
        => /\ io.err # NilError
           /\ io.err = <<"no evaluation results found">>
           /\ io.err[1] # "IAM access denied: "

\* The simulation has answered with no evaluation result.
C17_Witness ==
    /\ io.fn = "CheckIAMUserAccess"
    /\ io.output.err = NilError
    /\ io.output.EvaluationResults = <<>>
    /\ io.err = <<"no evaluation results found">>

\* C18: with one evaluation result or more the access check succeeds exactly
\* when the decision of the last result is "allowed", whatever the earlier
\* ones are; otherwise it fails with the access-denied error that carries the
\* decision of the last result.
C18_LastResultDecides ==
    (/\ io.fn = "CheckIAMUserAccess"
     /\ io.output.err = NilError
     /\ io.output.EvaluationResults # <<>>)
        => LET results == io.output.EvaluationResults
               decision == results[Len(results)].EvalDecision
           IN  /\ (io.err = NilError) <=> (decision = "allowed")
               /\ decision # "allowed" => io.err = <<"IAM access denied: ", decision>>

\* The last of several results allows what an earlier one denied, and the
\* last of several results denies what an earlier one allowed.
C18_Witness ==
    /\ io.fn = "CheckIAMUserAccess"
    /\ io.output.err = NilError
    /\ Len(io.output.EvaluationResults) = 3
    /\ io.output.EvaluationResults[1].EvalDecision = "allowed"
    /\ io.output.EvaluationResults[2].EvalDecision = "implicitDeny"
    /\ io.output.EvaluationResults[3].EvalDecision = "explicitDeny"
    /\ io.err = <<"IAM access denied: ", "explicitDeny">>

MaxHostnameLen == 253

Space == " "
Tab == "\t"
LineFeed == "\n"
CarriageReturn == "\r"

HostnameChars == {"d", ".", Space, Tab, LineFeed, CarriageReturn}
RunLengths == {1, 2, 4, 8, 250}

MaxRuns == 3

\* The hostnames of up to runs runs.
Hostnames(runs) == UNION { [1..k -> [ch : HostnameChars, n : RunLengths]] : k \in 0..runs }

RECURSIVE StrLen(_)
\* len(hostname)
StrLen(h) == IF h = <<>> THEN 0 ELSE h[1].n + StrLen(Tail(h))

\* strings.Contains(hostname, ch) for a single character
Contains(h, ch) == \E i \in 1..Len(h) : h[i].ch = ch /\ h[i].n >= 1

\* strings.ContainsAny(hostname, chars)
ContainsAny(h, chars) == \E c \in chars : Contains(h, c)

\* An isValidHostname that takes two separators in a row for invalid.
isValidHostname_NoEmptyLabel(hostname) ==
    IF StrLen(hostname) > MaxHostnameLen
    THEN FALSE
    ELSE /\ Contains(hostname, ".")
         /\ ~ContainsAny(hostname, {Space, Tab, LineFeed, CarriageReturn})
         /\ \A i \in 1..Len(hostname) :
                hostname[i].ch = "." =>
                    /\ hostname[i].n = 1
                    /\ i > 1 => hostname[i - 1].ch # "."

\* isValidHostname
isValidHostname(hostname) ==
    IF StrLen(hostname) > MaxHostnameLen
    THEN FALSE
    ELSE /\ Contains(hostname, ".")
         /\ ~ContainsAny(hostname, {Space, Tab, LineFeed, CarriageReturn})

\* connectToRDS up to the validation of the endpoint.
ValidateEndpoint ==
    /\ \E hostname \in Hostnames(MaxRuns) :
           io' = [fn |-> "isValidHostname", hostname |-> hostname,
                  valid |-> isValidHostname(hostname),
                  err |-> IF isValidHostname(hostname)
                          THEN NilError
                          ELSE <<"invalid endpoint: ", hostname>>]
    /\ UNCHANGED <<svc, now, fs, remote, saved, cop, pass, last, prev, wr, rd, ctx, run>>

NextValidate ==
    \/ Unobserved /\ ValidateEndpoint
    \/ Forget

SpecValidate == InitIdle /\ [][NextValidate]_vars

\* "db..internal" and "db host", letter for letter "d".
DbDotDotInternal == << [ch |-> "d", n |-> 2], [ch |-> ".", n |-> 2], [ch |-> "d", n |-> 8] >>
DbSpaceHost == << [ch |-> "d", n |-> 2], [ch |-> Space, n |-> 1], [ch |-> "d", n |-> 4] >>

\* C20: a hostname is accepted exactly when it is at most 253 long, holds a
\* "." and holds no whitespace (space, tab, line feed, carriage return);
\* "db..internal" is accepted and "db host" is rejected with the error of an
\* invalid endpoint.
C20_HostnameValidation ==
    io.fn = "isValidHostname"
        => LET h == io.hostname
               chars == { h[i].ch : i \in 1..Len(h) }
           IN  /\ io.valid <=> /\ StrLen(h) <= 253
                               /\ "." \in chars
                               /\ chars \cap {" ", "\t", "\n", "\r"} = {}
               /\ h = DbDotDotInternal => io.valid /\ io.err = NilError
               /\ h = DbSpaceHost => ~io.valid /\ io.err # NilError

\* A hostname of exactly 253 characters with two separators in a row has been
\* accepted.
C20_Witness ==
    /\ io.fn = "isValidHostname"
    /\ io.hostname = << [ch |-> "d", n |-> 250], [ch |-> ".", n |-> 2], [ch |-> "d", n |-> 1] >>
    /\ io.valid

(***************************************************************************)
(* connectToRDS (cmd/root.go): the three validations, then the mysql       *)
(* client.  A username is a sequence of runs like a hostname, "u" standing *)
(* for any character that is not whitespace.                               *)
(***************************************************************************)
MaxUsernameLen == 32
MaxPort == 65536

UsernameChars == {"u", Space, Tab, LineFeed, CarriageReturn}
UserRunLengths == {1, 2, 31}

MaxUserRuns == 2

\* The usernames of up to runs runs.
Usernames(runs) == UNION { [1..k -> [ch : UsernameChars, n : UserRunLengths]] : k \in 0..runs }

\* isValidUsername
isValidUsername(username) ==
    IF StrLen(username) > MaxUsernameLen
    THEN FALSE
    ELSE ~ContainsAny(username, {Space, Tab, LineFeed, CarriageReturn})

\* The ports an int32 holds, around the two limits.
Ports == {-1, 0, 1, 3306, 65535, 65536, 65537}

\* isValidPort
isValidPort(port) == port > 0 /\ port < MaxPort

\* The endpoints of the clusters handed to connectToRDS.
ConnectEndpoints ==
    { DbDotDotInternal, DbSpaceHost,
      << [ch |-> "d", n |-> 250], [ch |-> ".", n |-> 1], [ch |-> "d", n |-> 2] >>,
      << [ch |-> "d", n |-> 250], [ch |-> ".", n |-> 2], [ch |-> "d", n |-> 2] >>,
      << [ch |-> "d", n |-> 8] >> }

\* What cmd.Run meets: the client cannot be started, or it runs and exits
\* with a code (-1: ended by a signal).
ExitCodes == {0, 1, 2, 127, -1}
ClientOutcomes ==
    { [started |-> FALSE, code |-> 0] } \cup { [started |-> TRUE, code |-> c] : c \in ExitCodes }

NoProcess == [spawned |-> FALSE, args |-> <<>>, started |-> FALSE, code |-> 0]

\* cmd.Run: nil for exit code 0, an ExitError for any other code, another
\* error when the client cannot be started.
RunError(outcome) ==
    IF ~outcome.started THEN [kind |-> "start", code |-> 0]
    ELSE IF outcome.code = 0 THEN [kind |-> "nil", code |-> 0]
    ELSE [kind |-> "exit", code |-> outcome.code]

\* exec.Command("mysql") with its arguments, run.
RunClient(cluster, user, token, outcome) ==
    [spawned |-> TRUE,
     args |-> <<"mysql", "-h", cluster.Endpoint, "-P", cluster.Port, "-u", user,
                <<"-p", token>>, "--enable-cleartext-plugin">>,
     started |-> outcome.started, code |-> outcome.code]

\* A connectToRDS that leaves the port to the client.
connectToRDS_NoPortCheck(cluster, user, token, outcome) ==
    IF ~isValidHostname(cluster.Endpoint)
    THEN [err |-> <<"invalid endpoint: ", cluster.Endpoint>>, process |-> NoProcess]
    ELSE IF ~isValidUsername(user)
    THEN [err |-> <<"invalid username: ", user>>, process |-> NoProcess]
    ELSE LET err == RunError(outcome)
         IN  [err |-> IF err.kind = "nil" THEN NilError
                      ELSE IF err.kind = "exit" /\ err.code = 1 THEN NilError
                      ELSE <<"failed to connect to RDS: ", err>>,
              process |-> RunClient(cluster, user, token, outcome)]

\* A connectToRDS for which every exit of the client is a normal one.
connectToRDS_AnyExitNormal(cluster, user, token, outcome) ==
    IF ~isValidHostname(cluster.Endpoint)
    THEN [err |-> <<"invalid endpoint: ", cluster.Endpoint>>, process |-> NoProcess]
    ELSE IF ~isValidUsername(user)
    THEN [err |-> <<"invalid username: ", user>>, process |-> NoProcess]
    ELSE IF ~isValidPort(cluster.Port)
    THEN [err |-> <<"invalid port: ", cluster.Port>>, process |-> NoProcess]
    ELSE LET err == RunError(outcome)
         IN  [err |-> IF err.kind = "nil" THEN NilError
                      ELSE IF err.kind = "exit" THEN NilError
                      ELSE <<"failed to connect to RDS: ", err>>,
              process |-> RunClient(cluster, user, token, outcome)]

\* connectToRDS
connectToRDS(cluster, user, token, outcome) ==
    IF ~isValidHostname(cluster.Endpoint)
    THEN [err |-> <<"invalid endpoint: ", cluster.Endpoint>>, process |-> NoProcess]
    ELSE IF ~isValidUsername(user)
    THEN [err |-> <<"invalid username: ", user>>, process |-> NoProcess]
    ELSE IF ~isValidPort(cluster.Port)
    THEN [err |-> <<"invalid port: ", cluster.Port>>, process |-> NoProcess]
    ELSE LET err == RunError(outcome)
         IN  [err |-> IF err.kind = "nil" THEN NilError
                      ELSE IF err.kind = "exit" /\ err.code = 1 THEN NilError
                      ELSE <<"failed to connect to RDS: ", err>>,
              process |-> RunClient(cluster, user, token, outcome)]

\* One call of connectToRDS.
Connect ==
    /\ \E endpoint \in ConnectEndpoints, port \in Ports,
          user \in Usernames(MaxUserRuns), outcome \in ClientOutcomes :
           LET cluster == [Identifier |-> "a1", Endpoint |-> endpoint, Port |-> port]
               r == connectToRDS(cluster, user, "token", outcome)
           IN  io' = [fn |-> "connectToRDS", cluster |-> cluster, user |-> user,
                      outcome |-> outcome, err |-> r.err, process |-> r.process]
    /\ UNCHANGED <<svc, now, fs, remote, saved, cop, pass, last, prev, wr, rd, ctx, run>>

NextConnect ==
    \/ Unobserved /\ Connect
    \/ Forget

SpecConnect == InitIdle /\ [][NextConnect]_vars

\* The characters of a string of runs.
CharsOf(s) == { s[i].ch : i \in 1..Len(s) }

HostnameOk(h) ==
    StrLen(h) <= 253 /\ "." \in CharsOf(h) /\ CharsOf(h) \cap {" ", "\t", "\n", "\r"} = {}
UsernameOk(u) == StrLen(u) <= 32 /\ CharsOf(u) \cap {" ", "\t", "\n", "\r"} = {}
PortOk(p) == 0 < p /\ p < 65536

\* C21: the client process is spawned only if the hostname, the username (at
\* most 32 long, no whitespace) and the port (strictly between 0 and 65536)
\* all pass; if one of them fails, connect returns the error that names the
\* first offending field, and no process is spawned.
C21_PreflightBeforeSpawn ==
    io.fn = "connectToRDS"
        => LET ok == /\ HostnameOk(io.cluster.Endpoint)
                     /\ UsernameOk(io.user)
                     /\ PortOk(io.cluster.Port)
           IN  /\ io.process.spawned <=> ok
               /\ ~ok => /\ io.err # NilError
                         /\ io.err[1] \in {"invalid endpoint: ", "invalid username: ",
                                           "invalid port: "}
                         /\ io.err[1] = "invalid endpoint: "
                                => ~HostnameOk(io.cluster.Endpoint)
                         /\ io.err[1] = "invalid username: " => ~UsernameOk(io.user)
                         /\ io.err[1] = "invalid port: " => ~PortOk(io.cluster.Port)

\* Hostname and username pass, the port is 65536: no process, and the error
\* names the port.
C21_Witness ==
    /\ io.fn = "connectToRDS"
    /\ HostnameOk(io.cluster.Endpoint)
    /\ StrLen(io.user) = 32 /\ UsernameOk(io.user)
    /\ io.cluster.Port = 65536
    /\ ~io.process.spawned
    /\ io.err = <<"invalid port: ", 65536>>

\* C22: once the client has been spawned, connect returns success when the
\* client exits with code 0 or 1, and the error of a failed connection when
\* it exits with another code or cannot be started.
C22_ExitCodeOneIsNormal ==
    (io.fn = "connectToRDS" /\ io.process.spawned)
        => LET normal == io.outcome.started /\ io.outcome.code \in {0, 1}
           IN  /\ (io.err = NilError) <=> normal
               /\ ~normal => io.err[1] = "failed to connect to RDS: "

\* The client has run and exited with code 1.
C22_Witness ==
    /\ io.fn = "connectToRDS"
    /\ io.process.spawned
    /\ io.outcome.started /\ io.outcome.code = 1
    /\ io.err = NilError

(***************************************************************************)
(* The result and the remote calls of a complete pass (SpecDiscover).      *)
(***************************************************************************)
\* The listing over all pages, in pagination order.
RECURSIVE Flatten(_)
Flatten(pages) == IF pages = <<>> THEN <<>> ELSE Head(pages) \o Flatten(Tail(pages))

\* The two checks in front of the tag lookup.
AuthEnabled(c) == c.IAMDatabaseAuthenticationEnabled = Some(TRUE)
FieldsPresent(c) == c.DBClusterIdentifier # Nil /\ c.Endpoint # Nil /\ c.Port # Nil

\* The five predicates of a target.
Satisfies(c, f, region) ==
    /\ AuthEnabled(c)
    /\ FieldsPresent(c)
    /\ \E i \in 1..Len(c.TagList) :
           c.TagList[i].Key = f.tagName /\ c.TagList[i].Value = f.tagValue
    /\ \E i \in 1..Len(c.TagList) :
           c.TagList[i].Key = f.envTagName /\ c.TagList[i].Value = f.envTagValue
    /\ Len(Deref(c.DBClusterArn)) >= 4 /\ Deref(c.DBClusterArn)[4] = region

\* The targets of the resources of a listing that satisfy the predicates.
RECURSIVE TargetsOf(_, _, _)
TargetsOf(listing, f, region) ==
    IF listing = <<>> THEN <<>>
    ELSE LET c == Head(listing)
             rest == TargetsOf(Tail(listing), f, region)
         IN  IF Satisfies(c, f, region)
             THEN << [Identifier |-> Deref(c.DBClusterIdentifier),
                      Endpoint |-> Deref(c.Endpoint),
                      Port |-> Deref(c.Port),
                      Arn |-> Deref(c.DBClusterArn),
                      Region |-> region] >> \o rest
             ELSE rest

\* C23: a pass in which no remote call fails returns exactly the resources
\* of the listing, over all pages in pagination order, that satisfy the five
\* predicates: none left out, none twice, the order unchanged.
C23_ExactSubsequence ==
    (pass.seen /\ ~RemoteCallFailed)
        => /\ pass.err = "none"
           /\ pass.clusters = TargetsOf(Flatten(pass.pages), pass.f, svc.config.Region)

\* The tag lookups of a pass, and the candidates they were issued for.
LookedUp(c) ==
    \E k \in 1..Len(pass.log) :
        /\ pass.log[k].call = "ListTagsForResource"
        /\ pass.log[k].ResourceName = c.DBClusterArn

\* C24: a tag lookup is issued only for a candidate with identity
\* authentication explicitly enabled and identifier, endpoint and port
\* present; a candidate failing one of the two checks, or one whose tags do
\* not match, is skipped without an error, so that a pass ends without a
\* result only when one of its remote calls fails.
C24_SkipIsNotAnError ==
    pass.seen =>
        /\ \A c \in DBClusters : LookedUp(c) => AuthEnabled(c) /\ FieldsPresent(c)
        /\ pass.err # "none" => RemoteCallFailed /\ pass.err \in {"describe", "tags"}
        /\ pass.err = "tags" =>
               /\ pass.log[pass.failAt].call = "ListTagsForResource"
               /\ \E c \in DBClusters :
                      /\ c.DBClusterArn = pass.log[pass.failAt].ResourceName
                      /\ AuthEnabled(c) /\ FieldsPresent(c)

(***************************************************************************)
(* A discovery pass under an interrupt (cmd/root.go run, GetClusters).     *)
(* The listener cancels the context the remote calls are issued with; the  *)
(* pass itself never looks at the context.  A call that is in flight when  *)
(* the context is cancelled completes or is abandoned by the client        *)
(* library; a call issued with a cancelled context fails.                  *)
(*   ctx   the context of the invocation: "active" or "cancelled"          *)
(*   run   the invocation in progress: its position and what it has done   *)
(***************************************************************************)
CancelServices ==
    { NewServiceValue(r, e, [n |-> 1, unit |-> "h"]) : r \in Regions, e \in BOOLEAN }

CancelEnvs == {"prod"}

InitCancel == InitWith(CancelServices)

\* GetClusters up to the first page fetch of fetchClustersFromAWS: the tags
\* are valid and the load is a miss.
StartPass ==
    /\ run.pc = "idle"
    /\ Unobserved
    /\ \E env \in CancelEnvs, f \in ValidFilters :
           /\ ~loadFromCache(svc, fs, env, now, TRUE).ok
           /\ run' = [pc |-> "call", env |-> env, f |-> f, pages |-> remote,
                      total |-> RemoteCallsOf(remote, f, svc.config.Region),
                      issued |-> 1, atCancel |-> -1, inFlight |-> FALSE, fs0 |-> fs]
    /\ UNCHANGED <<svc, now, fs, remote, saved, cop, pass, last, prev, wr, rd, io, ctx>>

\* The goroutine of run: <-signalChan; cancel().
Interrupt ==
    /\ ctx = "active"
    /\ run.pc \in {"call", "collect"}
    /\ ctx' = "cancelled"
    /\ run' = [run EXCEPT !.atCancel = run.issued, !.inFlight = (run.pc = "call")]
    /\ UNCHANGED <<svc, now, fs, remote, saved, cop, pass, last, prev, wr, rd, io>>

\* A remote call that completes although it was issued with a cancelled context.
CallCompletes_IgnoreCancel ==
    /\ run.pc = "call"
    /\ IF run.issued = run.total
       THEN run' = [run EXCEPT !.pc = "collect"]
       ELSE run' = [run EXCEPT !.issued = @ + 1]
    /\ UNCHANGED <<svc, now, fs, remote, saved, cop, pass, last, prev, wr, rd, io, ctx>>

\* The remote call in flight completes: the pass goes on to its next remote
\* call (paginator.NextPage or ListTagsForResource), or has none left.
CallCompletes ==
    /\ run.pc = "call"
    /\ ctx = "active" \/ (run.inFlight /\ run.atCancel = run.issued)
    /\ IF run.issued = run.total
       THEN run' = [run EXCEPT !.pc = "collect"]
       ELSE run' = [run EXCEPT !.issued = @ + 1]
    /\ UNCHANGED <<svc, now, fs, remote, saved, cop, pass, last, prev, wr, rd, io, ctx>>

\* The remote call fails on the cancelled context: fetchClustersFromAWS
\* returns the error and GetClusters hands it on.
CallCancelled ==
    /\ run.pc = "call"
    /\ ctx = "cancelled"
    /\ LET w == [loadDirOk |-> TRUE, pages |-> run.pages, failAt |-> run.issued,
                 fault |-> NoFault]
           r == GetClusters(svc, fs, run.f, run.env, now, w)
       IN  /\ last' = CallRecord(run.env, run.f, r, w)
           /\ fs' = r.fs
           /\ run' = [run EXCEPT !.pc = "done"]
    /\ UNCHANGED <<svc, now, remote, saved, cop, pass, prev, wr, rd, io, ctx>>

\* No remote call is left: the rest of the last page is gone through,
\* fetchClustersFromAWS returns its clusters and GetClusters saves them.
PassReturns ==
    /\ run.pc = "collect"
    /\ \E fault \in {NoFault, [dirOk |-> FALSE, mkdirOk |-> TRUE, written |-> FullWrite]} :
        LET w == [loadDirOk |-> TRUE, pages |-> run.pages, failAt |-> 0, fault |-> fault]
            r == GetClusters(svc, fs, run.f, run.env, now, w)
        IN  /\ last' = CallRecord(run.env, run.f, r, w)
            /\ fs' = r.fs
            /\ saved' = IF r.saves = 1 THEN SavedAfter(r.save, run.env, r.clusters)
                        ELSE saved
            /\ run' = [run EXCEPT !.pc = "done"]
    /\ UNCHANGED <<svc, now, remote, cop, pass, prev, wr, rd, io, ctx>>

\* The invocation is over; the next one starts with a context of its own.
EndInvocation ==
    /\ run.pc = "done"
    /\ run' = NoRun
    /\ ctx' = "active"
    /\ last' = NoCall
    /\ UNCHANGED <<svc, now, fs, remote, saved, cop, pass, prev, wr, rd, io>>

NextCancel ==
    \/ /\ run.pc = "idle"
       /\ \/ NewService(CancelServices)
          \/ Tick
          \/ RemoteChange
    \/ StartPass
    \/ Interrupt
    \/ CallCompletes
    \/ CallCancelled
    \/ PassReturns
    \/ EndInvocation

SpecCancel == InitCancel /\ [][NextCancel]_vars

\* The pass of the invocation has ended, and the context was cancelled while
\* it was in progress.
CancelledInPass == run.pc = "done" /\ run.atCancel >= 0

EnvTags ==
    { [e \in Envs |-> [ReleaseState |-> e, Region |-> "r1"]], [e \in {} |-> 0] }

\* config.Config as LoadConfig returns it.
Configs ==
    { [RdsTags |-> [TagName |-> "app", TagValue |-> "db"],
       AllowedIAMUsers |-> users,
       EnvTag |-> envTag,
       Caching |-> [Enabled |-> TRUE, Duration |-> [n |-> 1, unit |-> "h"]],
       CheckIAMPermissions |-> check] :
        users \in { <<>>, <<"app", "ro">>, <<"">> }, envTag \in EnvTags,
        check \in BOOLEAN }

NewRun(cfg, checkOnly, pc) ==
    [pc |-> pc, checkOnly |-> checkOnly, cfg |-> cfg, env |-> "", rdsService |-> Nil,
     nilRead |-> FALSE, clusters |-> <<>>, cluster |-> NoCluster, user |-> "",
     iamRole |-> <<>>, simulated |-> Nil, token |-> <<>>, process |-> NoProcess,
     events |-> <<>>, todo |-> {}, err |-> NilError, call |-> NoCall, before |-> NoSave]

Event(stage, ok) == [stage |-> stage, ok |-> ok]

\* The invocation ends with an error.
Failed(r, err) == [r EXCEPT !.pc = "done", !.err = err]

\* run up to the branch on checkOnly: the configuration is loaded.
Start ==
    /\ run.pc = "idle"
    /\ Unobserved
    /\ \/ \E cfg \in Configs, checkOnly \in BOOLEAN :
              run' = NewRun(cfg, checkOnly, IF checkOnly THEN "check" ELSE "env")
       \/ run' = Failed(NewRun(CHOOSE c \in Configs : TRUE, FALSE, "done"),
                        <<"failed to load config: ">>)
    /\ UNCHANGED <<svc, now, fs, remote, saved, cop, pass, last, prev, wr, rd, io, ctx>>

\* promptEnvironmentSelection and aws.CheckAWSCredentials for its region.
\* The prompt returns one of its options, or an error.
SelectEnvironment ==
    /\ run.pc = "env"
    /\ \/ \E env \in DOMAIN run.cfg.EnvTag, credentials \in BOOLEAN :
              run' = IF credentials
                     THEN [run EXCEPT !.pc = "discover", !.env = env]
                     ELSE Failed([run EXCEPT !.env = env],
                                 <<"failed to initialize AWS credentials: ">>)
       \/ run' = Failed(run, <<"failed to select environment: ">>)
    /\ UNCHANGED <<svc, now, fs, remote, saved, cop, pass, last, prev, wr, rd, io, ctx>>

\* The service rds.NewService constructs for the invocation.
ServiceOf(cfg, region) == NewServiceValue(region, cfg.Caching.Enabled, cfg.Caching.Duration)

\* The filter of the invocation's GetClusters call.
FilterOf(cfg, env) ==
    Filter(cfg.RdsTags.TagName, cfg.RdsTags.TagValue, "ReleaseState",
           cfg.EnvTag[env].ReleaseState)

\* What happens to one read of rdsService for a call of GetClusters.
ReadService(r) == [r EXCEPT !.nilRead = @ \/ (r.rdsService = Nil)]

\* What the environment does during the GetClusters call of an invocation,
\* beside a failing remote call: the cache directory cannot be resolved for
\* the load, or for the save.
DiscoverFaults == { NoFault, [dirOk |-> FALSE, mkdirOk |-> TRUE, written |-> FullWrite] }

\* A selectClusterAndUser that leaves rdsService as it is.
DiscoverStage_NoService ==
    /\ run.pc = "discover"
    /\ \E failAt \in {0, 1}, loadDirOk \in BOOLEAN, fault \in DiscoverFaults :
        LET s == ServiceOf(run.cfg, run.cfg.EnvTag[run.env].Region)
            f == FilterOf(run.cfg, run.env)
            w == [loadDirOk |-> loadDirOk, pages |-> remote, failAt |-> failAt,
                  fault |-> fault]
            r == GetClusters(s, fs, f, run.env, now, w)
            called == [run EXCEPT !.call = CallRecord(run.env, f, r, w),
                                  !.before = saved[run.env]]
            read == ReadService(called)
        IN  /\ svc' = s
            /\ fs' = r.fs
            /\ saved' = IF r.saves = 1 THEN SavedAfter(r.save, run.env, r.clusters)
                        ELSE saved
            /\ run' = IF r.err # "nil"
                      THEN Failed([read EXCEPT !.events = Append(@, Event("discovery", FALSE))],
                                  <<"failed to get RDS clusters: ", r.err>>)
                      ELSE IF Len(r.clusters) = 0
                      THEN Failed([read EXCEPT !.events = Append(@, Event("discovery", TRUE))],
                                  <<"no RDS clusters found with specified tags and IAM authentication enabled">>)
                      ELSE [read EXCEPT !.pc = "select", !.clusters = r.clusters,
                                        !.events = Append(@, Event("discovery", TRUE))]
    /\ UNCHANGED <<now, remote, cop, pass, last, prev, wr, rd, io, ctx>>

\* selectClusterAndUser up to the prompts: the service is constructed and
\* assigned to rdsService, and GetClusters is called on it.
DiscoverStage ==
    /\ run.pc = "discover"
    /\ \E failAt \in {0, 1}, loadDirOk \in BOOLEAN, fault \in DiscoverFaults :
        LET s == ServiceOf(run.cfg, run.cfg.EnvTag[run.env].Region)
            f == FilterOf(run.cfg, run.env)
            w == [loadDirOk |-> loadDirOk, pages |-> remote, failAt |-> failAt,
                  fault |-> fault]
            r == GetClusters(s, fs, f, run.env, now, w)
            called == [run EXCEPT !.call = CallRecord(run.env, f, r, w),
                                  !.before = saved[run.env]]
            read == ReadService([called EXCEPT !.rdsService = Some(s)])
        IN  /\ svc' = s
            /\ fs' = r.fs
            /\ saved' = IF r.saves = 1 THEN SavedAfter(r.save, run.env, r.clusters)
                        ELSE saved
            /\ run' = IF r.err # "nil"
                      THEN Failed([read EXCEPT !.events = Append(@, Event("discovery", FALSE))],
                                  <<"failed to get RDS clusters: ", r.err>>)
                      ELSE IF Len(r.clusters) = 0
                      THEN Failed([read EXCEPT !.events = Append(@, Event("discovery", TRUE))],
                                  <<"no RDS clusters found with specified tags and IAM authentication enabled">>)
                      ELSE [read EXCEPT !.pc = "select", !.clusters = r.clusters,
                                        !.events = Append(@, Event("discovery", TRUE))]
    /\ UNCHANGED <<now, remote, cop, pass, last, prev, wr, rd, io, ctx>>

\* fmt.Sprintf("%s (%s:%d)", ...): the line a cluster is offered under.
Display(cluster) == <<cluster.Identifier, " (", cluster.Endpoint, ":", cluster.Port, ")">>

\* clusterMap[display]: the last cluster of the list with that line.
ClusterMap(clusters, display) ==
    clusters[CHOOSE k \in 1..Len(clusters) :
                 /\ Display(clusters[k]) = display
                 /\ \A j \in (k + 1)..Len(clusters) : Display(clusters[j]) # display]

\* The options of a prompt.
Options(s) == { s[k] : k \in 1..Len(s) }

\* A promptUserSelections that takes the user from the tool's default users.
SelectStage_AnyUser ==
    /\ run.pc = "select"
    /\ \/ \E k \in 1..Len(run.clusters), user \in DBUsers :
              run' = [run EXCEPT !.pc = "gate",
                                 !.cluster = ClusterMap(run.clusters, Display(run.clusters[k])),
                                 !.user = user,
                                 !.events = Append(@, Event("selection", TRUE))]
       \/ run' = Failed([run EXCEPT !.events = Append(@, Event("selection", FALSE))],
                        <<"failed to select cluster or user: ">>)
    /\ UNCHANGED <<svc, now, fs, remote, saved, cop, pass, last, prev, wr, rd, io, ctx>>

\* promptUserSelections: each prompt returns one of its options, or an error
\* (an interrupt, or no option to offer).
SelectStage ==
    /\ run.pc = "select"
    /\ \/ \E k \in 1..Len(run.clusters), user \in Options(run.cfg.AllowedIAMUsers) :
              run' = [run EXCEPT !.pc = "gate",
                                 !.cluster = ClusterMap(run.clusters, Display(run.clusters[k])),
                                 !.user = user,
                                 !.events = Append(@, Event("selection", TRUE))]
       \/ run' = Failed([run EXCEPT !.events = Append(@, Event("selection", FALSE))],
                        <<"failed to select cluster or user: ">>)
    /\ UNCHANGED <<svc, now, fs, remote, saved, cop, pass, last, prev, wr, rd, io, ctx>>

\* The resource id the inventory holds for a cluster.
ResourceIdOf(cluster) == <<"cluster-", cluster.Identifier>>

\* What DescribeDBClusters answers to the lookup of one cluster: the cluster,
\* an error, or a list with no cluster in it.
Lookups == {"found", "error", "none"}

\* DatabaseService.GetRDSInstanceIdentifier: the empty string when the
\* lookup fails; DBClusters[0] of an empty list panics.
GetRDSInstanceIdentifier(cluster, lookup) ==
    [panic |-> lookup = "none",
     id |-> IF lookup = "found" THEN ResourceIdOf(cluster) ELSE <<>>]

\* The identities and the simulator answers of an invocation.
RunIdentities ==
    { i \in CallerIdentities :
        \/ i.err # NilError
        \/ /\ i.parts[1] = "aws" /\ i.parts[2] = "sts" /\ i.parts[3] = "111"
           /\ i.parts[4] \in { <<"assumed-role", "/", "admin", "/", "s1">>,
                               <<"user", "/", "admin">> } }

RunSimulateOutputs ==
    { o \in SimulateOutputs :
        Len(o.EvaluationResults) <= 1
            /\ \A k \in 1..Len(o.EvaluationResults) :
                   o.EvaluationResults[k].EvalDecision \in {"allowed", "explicitDeny"} }

\* A checkIAMPermissions that reports a denial and carries on.
checkIAMPermissions_Advisory(r, identity, lookup, output) ==
    IF ~r.cfg.CheckIAMPermissions
    THEN [r EXCEPT !.pc = "mint"]
    ELSE LET role == GetCurrentIAMRole(identity)
         IN  IF role.err # NilError
             THEN Failed([r EXCEPT !.events = Append(@, Event("identity", FALSE))],
                         <<"failed to get IAM role: ">> \o role.err)
             ELSE LET read == ReadService(r)
                      id == GetRDSInstanceIdentifier(r.cluster, lookup)
                      err == CheckIAMUserAccess(output)
                      asked == [read EXCEPT
                                   !.iamRole = role.arn,
                                   !.simulated = Some(SimulateInput(role.arn, id.id, r.user)),
                                   !.events = @ \o <<Event("identity", TRUE),
                                                     Event("lookup", lookup = "found"),
                                                     Event("simulation", err = NilError)>>]
                  IN  IF id.panic
                      THEN Failed([read EXCEPT !.events = @ \o <<Event("identity", TRUE),
                                                                 Event("lookup", FALSE)>>],
                                  <<"panic">>)
                      ELSE [asked EXCEPT !.pc = "mint"]

\* checkIAMPermissions: nothing to do when the check is not configured;
\* otherwise the role of the caller, the resource id of the cluster (read
\* through rdsService) and the simulation.
checkIAMPermissions(r, identity, lookup, output) ==
    IF ~r.cfg.CheckIAMPermissions
    THEN [r EXCEPT !.pc = "mint"]
    ELSE LET role == GetCurrentIAMRole(identity)
         IN  IF role.err # NilError
             THEN Failed([r EXCEPT !.events = Append(@, Event("identity", FALSE))],
                         <<"failed to get IAM role: ">> \o role.err)
             ELSE LET read == ReadService(r)
                      id == GetRDSInstanceIdentifier(r.cluster, lookup)
                      err == CheckIAMUserAccess(output)
                      asked == [read EXCEPT
                                   !.iamRole = role.arn,
                                   !.simulated = Some(SimulateInput(role.arn, id.id, r.user)),
                                   !.events = @ \o <<Event("identity", TRUE),
                                                     Event("lookup", lookup = "found"),
                                                     Event("simulation", err = NilError)>>]
                  IN  IF id.panic
                      THEN Failed([read EXCEPT !.events = @ \o <<Event("identity", TRUE),
                                                                 Event("lookup", FALSE)>>],
                                  <<"panic">>)
                      ELSE IF err # NilError
                      THEN Failed(asked, <<"access denied: ", role.arn, r.user>> \o err)
                      ELSE [asked EXCEPT !.pc = "mint"]

\* The authorization gate of the invocation.
Gate ==
    /\ run.pc = "gate"
    /\ \E identity \in RunIdentities, lookup \in Lookups, output \in RunSimulateOutputs :
           run' = checkIAMPermissions(run, identity, lookup, output)
    /\ UNCHANGED <<svc, now, fs, remote, saved, cop, pass, last, prev, wr, rd, io, ctx>>

\* rds.GenerateAuthToken: an empty user is refused; the token is built for
\* the endpoint and port of the cluster, the region and the user, and
\* auth.BuildAuthToken may fail.
GenerateAuthToken(region, cluster, user, built) ==
    IF user = ""
    THEN [token |-> <<>>, err |-> <<"user cannot be empty">>]
    ELSE IF ~built
    THEN [token |-> <<>>, err |-> <<"failed to build auth token">>]
    ELSE [token |-> <<cluster.Endpoint, ":", cluster.Port, region, user>>, err |-> NilError]

\* connectToRDSWithToken up to connectToRDS.
MintToken ==
    /\ run.pc = "mint"
    /\ \E built \in BOOLEAN :
           LET r == GenerateAuthToken(run.cfg.EnvTag[run.env].Region, run.cluster,
                                      run.user, built)
           IN  run' = IF r.err # NilError
                      THEN Failed([run EXCEPT !.events = Append(@, Event("mint", FALSE))],
                                  <<"failed to generate IAM auth token: ">> \o r.err)
                      ELSE [run EXCEPT !.pc = "launch", !.token = r.token,
                                       !.events = Append(@, Event("mint", TRUE))]
    /\ UNCHANGED <<svc, now, fs, remote, saved, cop, pass, last, prev, wr, rd, io, ctx>>

\* A name as the runs of its characters.
RunsOfName(name, ch) ==
    IF name = "" THEN <<>>
    ELSE IF name = "." THEN << [ch |-> ".", n |-> 1] >>
    ELSE IF name = "internal" THEN << [ch |-> ch, n |-> 8] >>
    ELSE << [ch |-> ch, n |-> 2] >>

RECURSIVE RunsOfEndpoint(_)
RunsOfEndpoint(endpoint) ==
    IF endpoint = <<>> THEN <<>>
    ELSE RunsOfName(Head(endpoint), "d") \o RunsOfEndpoint(Tail(endpoint))

RunOutcomes == { o \in ClientOutcomes : o.code \in {0, 2} }

\* connectToRDS(cluster, user, token)
Launch ==
    /\ run.pc = "launch"
    /\ \E outcome \in RunOutcomes :
           LET r == connectToRDS([run.cluster EXCEPT !.Endpoint = RunsOfEndpoint(@)],
                                 RunsOfName(run.user, "u"), run.token, outcome)
           IN  run' = [run EXCEPT !.pc = "done", !.err = r.err, !.process = r.process,
                                  !.events = Append(@, Event("launch", r.process.spawned))]
    /\ UNCHANGED <<svc, now, fs, remote, saved, cop, pass, last, prev, wr, rd, io, ctx>>

\* run in check mode up to runCheck's loop: the first environment of the
\* configuration gives the region of the first service.
CheckStart ==
    /\ run.pc = "check"
    /\ \/ /\ DOMAIN run.cfg.EnvTag = {}
          /\ run' = Failed(run, <<"no environments configured">>)
       \/ \E firstEnv \in DOMAIN run.cfg.EnvTag, step \in 0..3 :
              LET s == ServiceOf(run.cfg, run.cfg.EnvTag[firstEnv].Region)
                  assigned == [run EXCEPT !.rdsService = Some(s)]
              IN  run' = IF step = 0
                         THEN Failed(run, <<"failed to initialize AWS credentials: ">>)
                         ELSE IF step = 1
                         THEN Failed(assigned, <<"AWS credentials check failed: ">>)
                         ELSE IF step = 2
                         THEN Failed(assigned, <<"configuration check failed: ">>)
                         ELSE [assigned EXCEPT !.pc = "checkEnv",
                                               !.todo = DOMAIN run.cfg.EnvTag]
    /\ UNCHANGED <<svc, now, fs, remote, saved, cop, pass, last, prev, wr, rd, io, ctx>>

\* One round of runCheck's loop over the environments, checkRDSConnectivity
\* included: its error is printed, and the loop goes on.
CheckEnv ==
    /\ run.pc = "checkEnv"
    /\ \E envName \in run.todo, credentials \in BOOLEAN, failAt \in {0, 1} :
        LET s == ServiceOf(run.cfg, run.cfg.EnvTag[envName].Region)
            f == FilterOf(run.cfg, envName)
            w == [loadDirOk |-> TRUE, pages |-> remote, failAt |-> failAt,
                  fault |-> NoFault]
            r == GetClusters(s, fs, f, envName, now, w)
            read == ReadService([run EXCEPT !.rdsService = Some(s)])
        IN  IF ~credentials
            THEN /\ run' = [run EXCEPT !.todo = @ \ {envName}]
                 /\ UNCHANGED <<svc, fs, saved>>
            ELSE /\ svc' = s
                 /\ fs' = r.fs
                 /\ saved' = IF r.saves = 1 THEN SavedAfter(r.save, envName, r.clusters)
                             ELSE saved
                 /\ run' = [read EXCEPT !.todo = @ \ {envName}, !.env = envName,
                                        !.clusters = r.clusters,
                                        !.events = Append(@, Event("connectivity",
                                                       r.err = "nil" /\ Len(r.clusters) > 0))]
    /\ UNCHANGED <<now, remote, cop, pass, last, prev, wr, rd, io, ctx>>

\* The end of runCheck: checkCache.
CheckCache ==
    /\ run.pc = "checkEnv"
    /\ run.todo = {}
    /\ \E ok \in BOOLEAN :
           run' = IF ok THEN [run EXCEPT !.pc = "done"]
                  ELSE Failed(run, <<"cache check failed: ">>)
    /\ UNCHANGED <<svc, now, fs, remote, saved, cop, pass, last, prev, wr, rd, io, ctx>>

RunServices == { IdleService }

InitRun == InitWith(RunServices)

NextRun ==
    \/ /\ run.pc = "idle"
       /\ \/ Tick
          \/ RemoteChange
    \/ Start
    \/ SelectEnvironment
    \/ DiscoverStage
    \/ SelectStage
    \/ Gate
    \/ MintToken
    \/ Launch
    \/ CheckStart
    \/ CheckEnv
    \/ CheckCache
    \/ EndInvocation

SpecRun == InitRun /\ [][NextRun]_vars

\* The invocation went through the stage, with that outcome.
HasEvent(r, stage, ok) == \E k \in 1..Len(r.events) : r.events[k] = Event(stage, ok)

Attempted(r, stage) == HasEvent(r, stage, TRUE) \/ HasEvent(r, stage, FALSE)

\* C26: on every path of the command, in normal mode and in check mode,
\* rdsService holds a constructed service whenever a statement reads it: no
\* call of GetClusters or of GetRDSInstanceIdentifier is made on the nil
\* handle.
C26_ServiceAssignedBeforeRead ==
    run.pc # "idle" =>
        /\ ~run.nilRead
        /\ (Attempted(run, "discovery") \/ Attempted(run, "connectivity")
                \/ Attempted(run, "lookup")) => run.rdsService # Nil

\* An invocation in normal mode has read rdsService in the permission
\* check, after the discovery read it.
C26_Witness ==
    /\ run.pc # "idle"
    /\ ~run.checkOnly
    /\ Attempted(run, "discovery")
    /\ HasEvent(run, "lookup", TRUE)
    /\ run.rdsService # Nil

\* The stage an event belongs to, by its place in the order of run.
StageRank(stage) ==
    IF stage = "discovery" THEN 1
    ELSE IF stage = "selection" THEN 2
    ELSE IF stage \in {"identity", "lookup", "simulation"} THEN 3
    ELSE IF stage = "mint" THEN 4
    ELSE 5

\* The outcome of the gate is that of the identity resolution and of the
\* simulation; the lookup of the resource id has no outcome of its own.
Decides(e) == e.stage # "lookup"

\* C27: in one invocation the stages run in the order discovery, selection,
\* authorization gate, token mint, client launch, and a stage runs only
\* after every earlier stage that ran has succeeded.  With the check
\* enabled a token is minted and a client spawned only after the identity
\* resolution and the access check succeeded; a token is minted only after
\* a discovery with a non-empty result; the client is launched only after
\* the token was minted.
C27_StagesInOrder ==
    (run.pc # "idle" /\ ~run.checkOnly) =>
        /\ \A j, k \in 1..Len(run.events) :
               j < k =>
                   /\ StageRank(run.events[j].stage) <= StageRank(run.events[k].stage)
                   /\ (StageRank(run.events[j].stage) < StageRank(run.events[k].stage)
                           /\ Decides(run.events[j])) => run.events[j].ok
        /\ (Attempted(run, "mint") \/ run.token # <<>> \/ run.process.spawned) =>
               /\ HasEvent(run, "discovery", TRUE)
               /\ Len(run.clusters) > 0
               /\ HasEvent(run, "selection", TRUE)
               /\ run.cfg.CheckIAMPermissions =>
                      HasEvent(run, "identity", TRUE) /\ HasEvent(run, "simulation", TRUE)
        /\ (Attempted(run, "launch") \/ run.process.spawned) =>
               HasEvent(run, "mint", TRUE) /\ run.token # <<>>

\* With the check enabled, an invocation went through all five stages and
\* spawned the client.
C27_Witness ==
    /\ run.pc = "done"
    /\ ~run.checkOnly
    /\ run.cfg.CheckIAMPermissions
    /\ HasEvent(run, "simulation", TRUE)
    /\ HasEvent(run, "mint", TRUE)
    /\ run.process.spawned

\* C29: with the authorization check enabled the simulation is requested
\* for the resource id of the selected cluster, and when the lookup of the
\* cluster fails the attempt ends with an error, with no simulation and no
\* token.
C29_LookupFailureAborts ==
    (run.pc # "idle" /\ ~run.checkOnly) =>
        /\ run.simulated # Nil =>
               Deref(run.simulated).ResourceArns[1][2] = ResourceIdOf(run.cluster)
        /\ HasEvent(run, "lookup", FALSE) =>
               /\ run.pc = "done"
               /\ run.err # NilError
               /\ run.simulated = Nil
               /\ run.token = <<>>

\* C30: a token is minted, and the client launched, only for a principal of
\* the configured list of allowed principals and for a target that is an
\* element of the sequence GetClusters returned in this invocation.
C30_SelectionFromOffers ==
    (run.pc # "idle" /\ ~run.checkOnly
        /\ (Attempted(run, "mint") \/ run.token # <<>> \/ run.process.spawned)) =>
        /\ run.user \in Options(run.cfg.AllowedIAMUsers)
        /\ run.cluster \in Options(run.clusters)

\* A client was spawned for the second of two targets and the second of two
\* allowed principals.
C30_Witness ==
    /\ run.pc = "done"
    /\ ~run.checkOnly
    /\ run.process.spawned
    /\ Len(run.clusters) = 2
    /\ run.cluster = run.clusters[2]
    /\ run.user = run.cfg.AllowedIAMUsers[2]

\* The discovery of the invocation went to the inventory and found no target.
LiveEmptyDiscovery ==
    /\ run.call # NoCall
    /\ run.call.err = "nil"
    /\ ~run.call.hit
    /\ run.call.calls > 0
    /\ run.call.clusters = <<>>

\* The snapshot of the scope, as the discovery of the invocation found it,
\* holds no target and is within the cache duration.
EmptySnapshotInDuration ==
    /\ run.call # NoCall
    /\ run.before.valid
    /\ run.before.clusters = <<>>
    /\ ParseDuration(run.cfg.Caching.Duration).ok
    /\ 0 <= run.call.at - run.before.at
    /\ run.call.at - run.before.at <= ParseDuration(run.cfg.Caching.Duration).d

NoClustersFound ==
    <<"no RDS clusters found with specified tags and IAM authentication enabled">>

\* C28: with caching enabled, a live discovery that succeeds with no target
\* saves a snapshot of the empty sequence for the scope (written unless the
\* save itself fails), and every later GetClusters call for the scope made
\* within the cache duration of that snapshot, the cache directory
\* resolvable, returns the empty sequence from the cache with no remote
\* call: the command ends with its no-clusters-found error.
C28_EmptyResultIsCached ==
    (run.pc # "idle" /\ ~run.checkOnly /\ run.cfg.Caching.Enabled) =>
        /\ LiveEmptyDiscovery =>
               /\ run.call.saves = 1
               /\ run.call.saveErr = "none" =>
                      /\ run.call.snap = [valid |-> TRUE, clusters |-> <<>>,
                                          at |-> run.call.at]
                      /\ saved[run.env] = run.call.snap
        /\ (EmptySnapshotInDuration /\ run.call.loadDirOk) =>
               /\ run.call.hit
               /\ run.call.err = "nil"
               /\ run.call.clusters = <<>>
               /\ run.call.calls = 0
               /\ run.pc = "done"
               /\ run.err = NoClustersFound
               /\ run.events = <<Event("discovery", TRUE)>>

\* An invocation is served the empty snapshot an earlier one wrote, some
\* time later and although the inventory now holds a matching target.
C28_Witness ==
    /\ run.pc = "done"
    /\ ~run.checkOnly
    /\ EmptySnapshotInDuration
    /\ run.call.at > run.before.at
    /\ run.call.hit
    /\ run.call.clusters = <<>>
    /\ run.err = NoClustersFound
    /\ fetchClustersFromAWS(remote, FilterOf(run.cfg, run.env),
                            run.cfg.EnvTag[run.env].Region, 0).clusters # <<>>

====
